---- MODULE Spec2Model ----
(***************************************************************************)
(* Frame-difference region planner of Muure-Embedded.                      *)
(*                                                                         *)
(*   SpecCompare  : ImageDifference.compare_images       (src/diference.py) *)
(*   SpecClassify : ImageDifference.bbox_has_non_binary_pixels             *)
(*   SpecBand     : bbox_has_non_binary_pixels on the images whose edge band *)
(*                  is examined pixel by pixel                               *)
(*   SpecPartial  : EInkDisplay.partial_update             (src/display.py) *)
(*   SpecDisplay  : SpecPartial or EInkDisplay.update      (src/display.py) *)
(*   SpecLeds     : LEDController with its animation threads (src/leds.py) *)
(*   SpecButtons  : ButtonHandler's GPIO polling thread (src/buttons.py)     *)
(*   SpecRender   : render_to_png with its retries (src/render.py)          *)
(*   SpecConvert  : FourToneConverter.convert, repeated (src/convert.py)    *)
(*   SpecLoop     : DisplayManager.run with the button thread (src/main.py) *)
(*   SpecLoopFair : SpecLoop with a fair event loop                        *)
(*                                                                         *)
(* An image is a record [w, h, px] with px a function from <<x, y>> to the *)
(* 8-bit grayscale intensity, as Image.convert("L").load() gives it.        *)
(***************************************************************************)
EXTENDS Integers, Sequences, FiniteSets, Bags, TLC

VARIABLES
    pc,             \* position in compare_images
    img_a, img_b,   \* the two images (after convert("L"))
    block_size, padding, force_square,
    changed_blocks, \* set of <<bx, by>>
    remaining,      \* blocks not yet assigned to a cluster
    queue,          \* frontier of the running traversal (a Python list)
    cluster,        \* blocks of the running cluster
    regions,        \* list of <<x, y, w, h>>
    cls_pc,         \* position in bbox_has_non_binary_pixels
    image,          \* the image analysed (after convert("L"))
    bbox,           \* the bbox argument
    threshold, delta, edge_radius,
    min_fraction,   \* <<numerator, denominator>>
    region,         \* the crop
    edge_band,      \* the (expanded) edge band, 255 on edges
    outside_edges,  \* 255 where edge_band is 0
    mid_gray_outside,
    result,         \* the value returned, once cls_pc = "done"
    pu_pc,          \* position in partial_update
    file_exists,    \* os.path.exists(bmp_path)
    emulated,       \* self.epd is the emulator: no width, no height, and
                    \* display_Partial takes the buffer only
    epd_width, epd_height,  \* the driver's panel size (0 when emulated)
    epd_mode,       \* "asleep" or "partial"
    src,            \* the image at bmp_path
    pu_regions,     \* the regions argument, a list of [kind, box]
    panel_w, panel_h,
    base_gray,      \* the image in panel orientation
    idx,            \* 1-based index of the region the loop is at
    sent,           \* the display_Partial calls the driver carried out
    up_pc,          \* position in update: the driver call it is at
    epd_calls,      \* the methods of self.epd invoked, in order
    main_pc,        \* position of the coroutine run()
    loop_set,       \* self.loop holds the running loop
    buttons_started,
    refresh_event,  \* asyncio.Event: is it set
    refresh_lock,   \* asyncio.Lock: is it held
    pending_sets,   \* refresh_event.set callbacks queued by call_soon_threadsafe
    refresh_interval,
    elapsed,        \* seconds the running wait has been blocked
    wait_outcome,   \* how the last wait ended, as it is logged
    calls,          \* the calls the running display cycle has made, in order
    led_pc,         \* position of the thread calling the LEDController
    led_call,       \* the method it is in
    stop_animation, \* threading.Event _stop_animation: is it set
    threads,        \* the animation threads started and not yet forgotten,
                    \* oldest first; the last is _animation_thread
    hour,           \* datetime.now().time().hour
    block_start_hour, block_end_hour,
    lit,            \* some pixel of the strip shows a colour other than off
    btn_pc,         \* position of the GPIO polling thread
    pin,            \* level of each button's pin
    now,            \* time.time(), in polling intervals
    debounce_time,  \* DEBOUNCE_TIME, in polling intervals
    last_press_time,
    presses,        \* the calls of _handle_button_press so far, in order
    requests,       \* API requests sent
    refreshes,      \* calls of refresh_callback
    rnd_pc,         \* position of render_to_png
    max_retries,
    attempt,        \* the loop variable of render_to_png
    rnd_step,       \* the statement of the try block that runs next
    waits,          \* the arguments of asyncio.sleep between attempts, in order
    attempts_made,  \* how many times the try block was entered
    unserved,       \* trigger_refresh was called and no display cycle has
                    \* begun since
    cycle_epd,      \* the driver calls of the running display cycle, in order
    conv_pc,        \* position of the caller of FourToneConverter.convert
    conv_source,    \* the image read from input_path (after convert("L"))
    conv_saved,     \* the image saved at output_path
    conversions     \* how many times convert has returned

cmpVars == <<pc, img_a, img_b, block_size, padding, force_square,
             changed_blocks, remaining, queue, cluster, regions>>

clsVars == <<cls_pc, image, bbox, threshold, delta, edge_radius, min_fraction,
             region, edge_band, outside_edges, mid_gray_outside, result>>

puVars == <<pu_pc, file_exists, emulated, epd_width, epd_height, epd_mode,
            src, pu_regions, panel_w, panel_h, base_gray, idx, sent,
            up_pc, epd_calls>>

loopVars == <<main_pc, loop_set, buttons_started, refresh_event, refresh_lock,
              pending_sets, refresh_interval, elapsed, wait_outcome, calls,
              unserved, cycle_epd>>

ledVars == <<led_pc, led_call, stop_animation, threads, hour,
             block_start_hour, block_end_hour, lit>>

btnVars == <<btn_pc, pin, now, debounce_time, last_press_time, presses,
             requests, refreshes>>

rndVars == <<rnd_pc, max_retries, attempt, rnd_step, waits, attempts_made>>

convVars == <<conv_pc, conv_source, conv_saved, conversions>>

vars == <<cmpVars, clsVars, puVars, loopVars, ledVars, btnVars, rndVars,
          convVars>>

\* what the actions of one operation leave alone
notCmpVars == <<clsVars, puVars, loopVars, ledVars, btnVars, rndVars, convVars>>
notClsVars == <<cmpVars, puVars, loopVars, ledVars, btnVars, rndVars, convVars>>
notPuVars == <<cmpVars, clsVars, loopVars, ledVars, btnVars, rndVars, convVars>>
notLoopVars == <<cmpVars, clsVars, puVars, ledVars, btnVars, rndVars, convVars>>
notLedVars == <<cmpVars, clsVars, puVars, loopVars, btnVars, rndVars, convVars>>
notBtnVars == <<cmpVars, clsVars, puVars, loopVars, ledVars, rndVars, convVars>>
notRndVars == <<cmpVars, clsVars, puVars, loopVars, ledVars, btnVars, convVars>>
notConvVars == <<cmpVars, clsVars, puVars, loopVars, ledVars, btnVars, rndVars>>

----------------------------------------------------------------------------
(* Bounds of the inputs                                                    *)

MaxW == 3          \* widest image compared
MaxH == 3          \* tallest image compared
MaxChanged == 3    \* most pixels in which img_b is made to differ from img_a
MaxBlock == 2      \* largest block_size
MaxPad == 1        \* largest padding
MaxCW == 4         \* widest image classified
MaxCH == 2         \* tallest image classified
MaxEdgeRadius == 1 \* largest edge_radius
MaxGradW == 16     \* widest gradient classified
MaxPW == 16        \* widest panel image
MaxPH == 2         \* tallest panel image
MaxRegions == 2    \* longest list of regions
MaxInterval == 3   \* longest DISPLAY_REFRESH_INTERVAL, in seconds
MaxPending == 2    \* most refresh_event.set callbacks queued at a time
MaxThreads == 2    \* most animation threads alive at a time
MaxFadeSteps == 1  \* largest steps of _fade_effect
MaxDebounce == 2   \* largest DEBOUNCE_TIME, in polling intervals
MaxApiTime == 2    \* longest API request, in polling intervals
MaxTime == 4       \* polling intervals the button thread is followed for
MaxRetries == 5    \* largest max_retries given to render_to_png
MaxBandW == 4      \* largest width and height of an image whose edge band
MaxBandH == 2      \* is examined pixel by pixel
MaxConvW == 2      \* widest image converted
MaxConvH == 1      \* tallest image converted
MaxConversions == 2 \* most conversions in a row, each of the file saved before

\* defaults of bbox_has_non_binary_pixels
DefaultThreshold == 127
DefaultDelta == 40
DefaultEdgeRadius == 2

Gray == {0, 64, 255}    \* intensities used for the compared images

Max2(a, b) == IF a >= b THEN a ELSE b
Min2(a, b) == IF a <= b THEN a ELSE b

Pixels(w, h) == (0 .. w - 1) \X (0 .. h - 1)

NoImage == [w |-> 0, h |-> 0, px |-> [p \in {} |-> 0]]

UniformImage(w, h, v) == [w |-> w, h |-> h, px |-> [p \in Pixels(w, h) |-> v]]

\* an image with three different intensities, none of them uniform rows
StripedImage(w, h) ==
    [w |-> w, h |-> h,
     px |-> [p \in Pixels(w, h) |->
                IF (p[1] + p[2]) % 3 = 0 THEN 0
                ELSE IF (p[1] + p[2]) % 3 = 1 THEN 64 ELSE 255]]

\* img with the pixels of D set to v
Repaint(img, D, v) ==
    [img EXCEPT !.px = [p \in DOMAIN img.px |-> IF p \in D THEN v ELSE img.px[p]]]

----------------------------------------------------------------------------
(* compare_images                                                          *)

\* line 51: a_px[x, y] != b_px[x, y]
PixelDiffers_Thresholded(pa, pb) == (pa > 127) # (pb > 127)
PixelDiffers_NotGreater(pa, pb) == pa <= pb
PixelDiffers(pa, pb) == pa # pb

\* lines 49-54: the inner loop, columns x .. width-1 of row y
RECURSIVE ScanRow(_, _, _, _, _)
ScanRow(a, b, S, y, x) ==
    IF x >= a.w THEN {}
    ELSE (IF PixelDiffers(a.px[<<x, y>>], b.px[<<x, y>>])
          THEN {<<x \div S, y \div S>>} ELSE {})
         \cup ScanRow(a, b, S, y, x + 1)

\* lines 48-54: the outer loop, rows y .. height-1
RECURSIVE ScanRows(_, _, _, _)
ScanRows(a, b, S, y) ==
    IF y >= a.h THEN {}
    ELSE ScanRow(a, b, S, y, 0) \cup ScanRows(a, b, S, y + 1)

\* lines 60-62: the four neighbours, in the order the generator yields them
neighbors_NoUp(bx, by) == <<(<<bx + 1, by>>), (<<bx - 1, by>>), (<<bx, by + 1>>)>>
neighbors_RightDownOnly(bx, by) == <<(<<bx + 1, by>>), (<<bx, by + 1>>)>>
neighbors(bx, by) ==
    <<(<<bx + 1, by>>), (<<bx - 1, by>>), (<<bx, by + 1>>), (<<bx, by - 1>>)>>

\* lines 72-76: the for loop over the neighbours of one block, from the i-th on;
\* st = [remaining, cluster, queue]
RECURSIVE VisitNeighbors(_, _, _)
VisitNeighbors(ns, i, st) ==
    IF i > Len(ns) THEN st
    ELSE IF ns[i] \in st.remaining
         THEN VisitNeighbors(ns, i + 1,
                  [remaining |-> st.remaining \ {ns[i]},
                   cluster   |-> st.cluster \cup {ns[i]},
                   queue     |-> Append(st.queue, ns[i])])
         ELSE VisitNeighbors(ns, i + 1, st)

SetMin(S) == CHOOSE m \in S : \A n \in S : m <= n
SetMax(S) == CHOOSE m \in S : \A n \in S : m >= n

\* lines 91-95
SquareSide(fs, side, other) == IF fs /\ other > side THEN other ELSE side

\* lines 98-103 on one axis: origin o, extent e, padding p, image dimension dim;
\* gives <<clamped origin, clamped extent>>
ClampAxis_NoFarClamp(o, e, p, dim) ==
    LET o1 == Max2(0, o - p)
    IN  <<o1, e + 2 * p>>
ClampAxis_FarEdgeUnpadded(o, e, p, dim) ==
    LET o1 == Max2(0, o - p)
        f1 == Min2(o1 + e, dim)
    IN  <<o1, f1 - o1>>
ClampAxis_NoOriginClamp(o, e, p, dim) ==
    LET o1 == o - p
        f1 == Min2(o1 + e + 2 * p, dim)
    IN  <<o1, f1 - o1>>
ClampAxis(o, e, p, dim) ==
    LET o1 == Max2(0, o - p)
        f1 == Min2(o1 + e + 2 * p, dim)
    IN  <<o1, f1 - o1>>

\* lines 79-105: the region of one cluster
ClusterRegion(cl, S, p, fs, width, height) ==
    LET min_bx == SetMin({b[1] : b \in cl})
        max_bx == SetMax({b[1] : b \in cl})
        min_by == SetMin({b[2] : b \in cl})
        max_by == SetMax({b[2] : b \in cl})
        x0 == min_bx * S
        y0 == min_by * S
        w  == (max_bx - min_bx + 1) * S
        h  == (max_by - min_by + 1) * S
        w2 == SquareSide(fs, w, h)
        h2 == SquareSide(fs, h, w)
        ax == ClampAxis(x0, w2, p, width)
        ay == ClampAxis(y0, h2, p, height)
    IN  <<ax[1], ay[1], ax[2], ay[2]>>

----------------------------------------------------------------------------
(* Inputs of compare_images                                                *)

BaseImages(w, h) == {UniformImage(w, h, 0), StripedImage(w, h)}

\* Scenario images of the spec: 16x16, all black, and the same with a 4x4
\* white square at pixel origin (8, 8)
ScenarioBlack == UniformImage(16, 16, 0)
ScenarioSquare ==
    Repaint(ScenarioBlack, (8 .. 11) \X (8 .. 11), 255)

\* equally sized pairs: img_b is img_a with at most MaxChanged pixels repainted
InitSmallPair ==
    /\ \E w \in 1 .. MaxW, h \in 1 .. MaxH :
         \E a \in BaseImages(w, h), v \in Gray :
           \E D \in {D \in SUBSET Pixels(w, h) : Cardinality(D) <= MaxChanged} :
              /\ img_a = a
              /\ img_b = Repaint(a, D, v)
    /\ block_size \in 1 .. MaxBlock
    /\ padding \in 0 .. MaxPad
    /\ force_square \in BOOLEAN

\* pairs of different size
InitMismatch ==
    /\ \E w \in 1 .. 2, h \in 1 .. 2, w2 \in 1 .. 2, h2 \in 1 .. 2 :
          /\ <<w, h>> # <<w2, h2>>
          /\ img_a = UniformImage(w, h, 0)
          /\ img_b = UniformImage(w2, h2, 255)
    /\ block_size = 1
    /\ padding = 0
    /\ force_square = FALSE

\* Scenarios A, B and C of the spec
InitScenario ==
    /\ img_a = ScenarioBlack
    /\ img_b \in {ScenarioBlack, ScenarioSquare}
    /\ block_size = 4
    /\ padding \in {0, 2}
    /\ force_square = FALSE

\* no call of bbox_has_non_binary_pixels is running
ClassifyIdle ==
    /\ cls_pc = "idle"
    /\ image = NoImage
    /\ bbox = <<0, 0, 0, 0>>
    /\ threshold = DefaultThreshold
    /\ delta = DefaultDelta
    /\ edge_radius = DefaultEdgeRadius
    /\ min_fraction = <<1, 100>>
    /\ region = NoImage
    /\ edge_band = NoImage.px
    /\ outside_edges = NoImage.px
    /\ mid_gray_outside = NoImage.px
    /\ result = FALSE

\* no call of partial_update is running
PartialIdle ==
    /\ pu_pc = "idle"
    /\ file_exists = FALSE
    /\ emulated = TRUE
    /\ epd_width = 0
    /\ epd_height = 0
    /\ epd_mode = "asleep"
    /\ src = NoImage
    /\ pu_regions = <<>>
    /\ panel_w = 0
    /\ panel_h = 0
    /\ base_gray = NoImage
    /\ idx = 0
    /\ sent = <<>>
    /\ up_pc = "idle"
    /\ epd_calls = <<>>

\* run() has not been called
LoopIdle ==
    /\ main_pc = "idle"
    /\ loop_set = FALSE
    /\ buttons_started = FALSE
    /\ refresh_event = FALSE
    /\ refresh_lock = FALSE
    /\ pending_sets = 0
    /\ refresh_interval = 1
    /\ elapsed = 0
    /\ wait_outcome = "none"
    /\ calls = <<>>
    /\ unserved = FALSE
    /\ cycle_epd = <<>>

\* no LEDController is in use
LedsIdle ==
    /\ led_pc = "unused"
    /\ led_call = "none"
    /\ stop_animation = FALSE
    /\ threads = <<>>
    /\ hour = 0
    /\ block_start_hour = 22
    /\ block_end_hour = 7
    /\ lit = FALSE

\* no ButtonHandler thread runs
ButtonsIdle ==
    /\ btn_pc = "unused"
    /\ pin = [b \in {"left", "right"} |-> "HIGH"]
    /\ now = 0
    /\ debounce_time = 1
    /\ last_press_time = [b \in {"left", "right"} |-> 0]
    /\ presses = <<>>
    /\ requests = 0
    /\ refreshes = 0

\* render_to_png is not running
RenderIdle ==
    /\ rnd_pc = "unused"
    /\ max_retries = 0
    /\ attempt = 0
    /\ rnd_step = 0
    /\ waits = <<>>
    /\ attempts_made = 0

\* FourToneConverter.convert is not called
ConvertIdle ==
    /\ conv_pc = "unused"
    /\ conv_source = NoImage
    /\ conv_saved = NoImage
    /\ conversions = 0

InitCompare ==
    /\ ClassifyIdle
    /\ PartialIdle
    /\ LoopIdle
    /\ LedsIdle
    /\ ButtonsIdle
    /\ RenderIdle
    /\ ConvertIdle
    /\ pc = "start"
    /\ (InitSmallPair \/ InitMismatch \/ InitScenario)
    /\ changed_blocks = {}
    /\ remaining = {}
    /\ queue = <<>>
    /\ cluster = {}
    /\ regions = <<>>

\* lines 36-37
SizeMismatch_ReturnsEmpty ==
    /\ pc = "start"
    /\ <<img_a.w, img_a.h>> # <<img_b.w, img_b.h>>
    /\ pc' = "done"
    /\ UNCHANGED <<img_a, img_b, block_size, padding, force_square,
                   changed_blocks, remaining, queue, cluster, regions>>
    /\ UNCHANGED notCmpVars
SizeMismatch ==
    /\ pc = "start"
    /\ <<img_a.w, img_a.h>> # <<img_b.w, img_b.h>>
    /\ pc' = "error"
    /\ UNCHANGED <<img_a, img_b, block_size, padding, force_square,
                   changed_blocks, remaining, queue, cluster, regions>>
    /\ UNCHANGED notCmpVars

\* lines 39-57 and 64-65
ScanImages ==
    /\ pc = "start"
    /\ <<img_a.w, img_a.h>> = <<img_b.w, img_b.h>>
    /\ LET cb == ScanRows(img_a, img_b, block_size, 0)
       IN  /\ changed_blocks' = cb
           /\ remaining' = cb
           /\ pc' = IF cb = {} THEN "done" ELSE "cluster"
    /\ UNCHANGED <<img_a, img_b, block_size, padding, force_square,
                   queue, cluster, regions>>
    /\ UNCHANGED notCmpVars

\* lines 66-69: set.pop() takes an arbitrary element
PopStart ==
    /\ pc = "cluster"
    /\ remaining # {}
    /\ \E start \in remaining :
          /\ remaining' = remaining \ {start}
          /\ queue' = <<start>>
          /\ cluster' = {start}
    /\ pc' = "bfs"
    /\ UNCHANGED <<img_a, img_b, block_size, padding, force_square,
                   changed_blocks, regions>>
    /\ UNCHANGED notCmpVars

\* lines 70-76: one turn of the inner while loop; list.pop() takes the last
Visit ==
    /\ pc = "bfs"
    /\ queue # <<>>
    /\ LET c  == queue[Len(queue)]
           st == VisitNeighbors(neighbors(c[1], c[2]), 1,
                     [remaining |-> remaining, cluster |-> cluster,
                      queue |-> SubSeq(queue, 1, Len(queue) - 1)])
       IN  /\ remaining' = st.remaining
           /\ cluster' = st.cluster
           /\ queue' = st.queue
    /\ UNCHANGED <<pc, img_a, img_b, block_size, padding, force_square,
                   changed_blocks, regions>>
    /\ UNCHANGED notCmpVars

\* lines 78-105
EmitRegion ==
    /\ pc = "bfs"
    /\ queue = <<>>
    /\ regions' = Append(regions,
          ClusterRegion(cluster, block_size, padding, force_square,
                        img_a.w, img_a.h))
    /\ pc' = "cluster"
    /\ UNCHANGED <<img_a, img_b, block_size, padding, force_square,
                   changed_blocks, remaining, queue, cluster>>
    /\ UNCHANGED notCmpVars

\* line 107
ReturnRegions ==
    /\ pc = "cluster"
    /\ remaining = {}
    /\ pc' = "done"
    /\ UNCHANGED <<img_a, img_b, block_size, padding, force_square,
                   changed_blocks, remaining, queue, cluster, regions>>
    /\ UNCHANGED notCmpVars

NextCompare ==
    \/ SizeMismatch
    \/ ScanImages
    \/ PopStart
    \/ Visit
    \/ EmitRegion
    \/ ReturnRegions

SpecCompare == InitCompare /\ [][NextCompare]_vars

----------------------------------------------------------------------------
(* Properties of compare_images                                            *)

Finished == pc = "done"

\* positions from which the scan has run
Scanned == pc \in {"cluster", "bfs", "done"}

\* the pixels whose intensity differs in the two images
DiffPixels ==
    {p \in Pixels(img_a.w, img_a.h) : img_a.px[p] # img_b.px[p]}

\* the blocks holding a differing pixel
DiffBlocks == {<<p[1] \div block_size, p[2] \div block_size>> : p \in DiffPixels}

\* the pixel rectangle [bx*S, (bx+1)*S) x [by*S, (by+1)*S) of a block
BlockRect(b) ==
    (b[1] * block_size .. (b[1] + 1) * block_size - 1)
        \X (b[2] * block_size .. (b[2] + 1) * block_size - 1)

\* the pixel rectangle [x, x+w) x [y, y+h) of a region
RegionRect(r) == (r[1] .. r[1] + r[3] - 1) \X (r[2] .. r[2] + r[4] - 1)

Covered == UNION {RegionRect(regions[i]) : i \in 1 .. Len(regions)}

Adjacent(b, c) ==
    \/ b[1] = c[1] /\ (b[2] - c[2] = 1 \/ c[2] - b[2] = 1)
    \/ b[2] = c[2] /\ (b[1] - c[1] = 1 \/ c[1] - b[1] = 1)

DiagonalOnly(b, c) ==
    /\ (b[1] - c[1] = 1 \/ c[1] - b[1] = 1)
    /\ (b[2] - c[2] = 1 \/ c[2] - b[2] = 1)

\* the blocks of B linked to a block of seed by a chain of adjacent blocks of B
RECURSIVE Linked(_, _)
Linked(seed, B) ==
    LET more == seed \cup {b \in B : \E c \in seed : Adjacent(b, c)}
    IN  IF more = seed THEN seed ELSE Linked(more, B)

\* the 4-connected components of a block set
Components(B) == {Linked({b}, B) : b \in B}

\* the cluster whose region was appended last
JustEmitted == pc = "cluster" /\ regions # <<>>
LastRegion == regions[Len(regions)]

\* C1 as stated: when compare_images returns, the regions cover the whole
\* pixel rectangle of every changed block.
C1_CoversWholeBlocks ==
    Finished => \A b \in DiffBlocks : BlockRect(b) \subseteq Covered

\* C1 (amended): when compare_images returns, the regions cover every pixel of
\* the image that lies in a changed block; no changed block is left uncovered
\* inside the image.
C1_CoversBlocksInImage ==
    Finished =>
        \A b \in DiffBlocks :
            (BlockRect(b) \cap Pixels(img_a.w, img_a.h)) \subseteq Covered

C1_Witness ==
    /\ Finished
    /\ padding > 0
    /\ Len(regions) >= 2
    /\ \E b \in DiffBlocks : ~(BlockRect(b) \subseteq Pixels(img_a.w, img_a.h))

\* C2: every region in the list has w > 0, h > 0, x >= 0, y >= 0 and ends
\* inside the image, at every moment of the call.
C2_RegionsInsideImage ==
    \A i \in 1 .. Len(regions) :
        LET r == regions[i]
        IN  /\ r[3] > 0 /\ r[4] > 0
            /\ r[1] >= 0 /\ r[2] >= 0
            /\ r[1] + r[3] <= img_a.w
            /\ r[2] + r[4] <= img_a.h

\* a region whose padded, squared rectangle would leave the image on both sides
C2_Witness ==
    /\ JustEmitted
    /\ force_square
    /\ padding > 0
    /\ SetMin({b[1] : b \in cluster}) * block_size - padding < 0
    /\ (SetMax({b[2] : b \in cluster}) + 1) * block_size + padding > img_a.h
    /\ LastRegion[1] = 0
    /\ LastRegion[2] + LastRegion[4] = img_a.h

\* C3: the clusters are the 4-connected components of the changed-block set:
\* the blocks still to be clustered are whole components, every finished cluster
\* is one component, and the list holds one region per component clustered so
\* far, hence one per component when the call returns.
C3_OneRegionPerComponent ==
    (pc \in {"cluster", "done"}) =>
        LET comps == Components(DiffBlocks)
            open  == {c \in comps : c \subseteq remaining}
        IN  /\ remaining = UNION open
            /\ Len(regions) = Cardinality(comps \ open)
            /\ (regions # <<>> => cluster \in comps \ open)
            /\ (Finished => Len(regions) = Cardinality(comps))

\* two blocks touching only at a corner end in separate regions, next to a
\* cluster of more than one block
C3_Witness ==
    /\ Finished
    /\ Len(regions) = 2
    /\ \E b \in DiffBlocks, c \in DiffBlocks :
          DiagonalOnly(b, c) /\ c \notin Linked({b}, DiffBlocks)
    /\ \E c \in Components(DiffBlocks) : Cardinality(c) >= 2

\* C4: the changed-block set is exactly the set of blocks (x div S, y div S) of
\* the pixels whose intensity differs.
C4_ChangedBlocksExact ==
    Scanned => changed_blocks = DiffBlocks

\* a difference that is no black/white flip marks its block
C4_Witness ==
    /\ Scanned
    /\ block_size > 1
    /\ \E p \in DiffPixels :
          /\ (img_a.px[p] > 127) = (img_b.px[p] > 127)
          /\ <<p[1] \div block_size, p[2] \div block_size>> \in changed_blocks
    /\ \E p \in Pixels(img_a.w, img_a.h) : p \notin DiffPixels

\* block extents of the cluster clustered last
MinBx == SetMin({b[1] : b \in cluster})
MaxBx == SetMax({b[1] : b \in cluster})
MinBy == SetMin({b[2] : b \in cluster})
MaxBy == SetMax({b[2] : b \in cluster})

\* origin and far edge the claim gives for one axis
PaddedOrigin(minB) == Max2(0, minB * block_size - padding)
PaddedFarEdge(minB, maxB, dim) ==
    LET originShift == minB * block_size - PaddedOrigin(minB)
    IN  Min2((maxB + 1) * block_size + 2 * padding - originShift, dim)

C5_General ==
    (JustEmitted /\ ~force_square) =>
        /\ LastRegion[1] = PaddedOrigin(MinBx)
        /\ LastRegion[2] = PaddedOrigin(MinBy)
        /\ LastRegion[1] + LastRegion[3] = PaddedFarEdge(MinBx, MaxBx, img_a.w)
        /\ LastRegion[2] + LastRegion[4] = PaddedFarEdge(MinBy, MaxBy, img_a.h)

C5_Scenarios ==
    (Finished /\ img_a = ScenarioBlack /\ img_b = ScenarioSquare /\ block_size = 4) =>
        /\ changed_blocks = {<<2, 2>>}
        /\ (padding = 0 => regions = << <<8, 8, 4, 4>> >>)
        /\ (padding = 2 => regions = << <<6, 6, 8, 8>> >>)

\* C5 as stated: without force_square the region has origin max(0, minB*S - p)
\* and far edge min(farEdge + 2p - originShift, dimension) on each axis, with
\* p = 0 it is the tight rectangle (minBx*S, minBy*S) .. ((maxBx+1)*S,
\* (maxBy+1)*S), and the scenarios give (8,8,4,4) and (6,6,8,8).
C5_TightWithoutPadding ==
    /\ C5_General
    /\ C5_Scenarios
    /\ (JustEmitted /\ ~force_square /\ padding = 0) =>
          LastRegion = <<MinBx * block_size, MinBy * block_size,
                         (MaxBx - MinBx + 1) * block_size,
                         (MaxBy - MinBy + 1) * block_size>>

\* C5 (amended): as stated, except that with p = 0 the region is the tight
\* rectangle cut off at the image's right and bottom edge.
C5_TightCutAtImage ==
    /\ C5_General
    /\ C5_Scenarios
    /\ (JustEmitted /\ ~force_square /\ padding = 0) =>
          LastRegion = <<MinBx * block_size, MinBy * block_size,
                         Min2((MaxBx + 1) * block_size, img_a.w) - MinBx * block_size,
                         Min2((MaxBy + 1) * block_size, img_a.h) - MinBy * block_size>>

\* a padded cluster of two blocks whose origin is stopped at 0 on one axis only
C5_Witness ==
    /\ JustEmitted
    /\ ~force_square
    /\ padding > 0
    /\ Cardinality(cluster) >= 2
    /\ MinBx * block_size - padding < 0
    /\ MinBy * block_size - padding >= 0

\* C6: with force_square every region in the list is a square.
C6_AlwaysSquare ==
    force_square => \A i \in 1 .. Len(regions) : regions[i][3] = regions[i][4]

\* C7: comparing an image with itself marks no block and returns the empty
\* list, and an empty changed-block set always gives the empty list.
C7_IdenticalGivesNothing ==
    /\ (img_a = img_b) =>
          /\ pc \in {"start", "done"}
          /\ changed_blocks = {}
          /\ regions = <<>>
    /\ (Scanned /\ changed_blocks = {}) => (Finished /\ regions = <<>>)

C7_Witness ==
    /\ Finished
    /\ img_a = img_b
    /\ \E p \in DOMAIN img_a.px, q \in DOMAIN img_a.px : img_a.px[p] # img_a.px[q]
    /\ block_size > 1

\* the regions of the components of the changed blocks, with multiplicity
ComponentRegion(c) ==
    LET minx == SetMin({b[1] : b \in c})
        maxx == SetMax({b[1] : b \in c})
        miny == SetMin({b[2] : b \in c})
        maxy == SetMax({b[2] : b \in c})
        bw   == (maxx - minx + 1) * block_size
        bh   == (maxy - miny + 1) * block_size
        sw   == IF force_square THEN Max2(bw, bh) ELSE bw
        sh   == IF force_square THEN Max2(bw, bh) ELSE bh
        ox   == Max2(0, minx * block_size - padding)
        oy   == Max2(0, miny * block_size - padding)
    IN  <<ox, oy,
          Min2(ox + sw + 2 * padding, img_a.w) - ox,
          Min2(oy + sh + 2 * padding, img_a.h) - oy>>

RegionsOfInputs ==
    LET comps == Components(DiffBlocks)
    IN  [r \in {ComponentRegion(c) : c \in comps} |->
            Cardinality({c \in comps : ComponentRegion(c) = r})]

ListAsBag(l) ==
    [r \in {l[i] : i \in 1 .. Len(l)} |-> Cardinality({i \in 1 .. Len(l) : l[i] = r})]

\* C8: the returned regions, as a multiset, are a function of the two images
\* and the parameters: whatever block set.pop() picked, the list holds the
\* regions RegionsOfInputs computes from the inputs alone.
C8_RegionsIndependentOfPopOrder ==
    Finished => ListAsBag(regions) = RegionsOfInputs

\* a return with several regions, one of a cluster with several possible starts
C8_Witness ==
    /\ Finished
    /\ Len(regions) >= 2
    /\ \E c \in Components(DiffBlocks) : Cardinality(c) >= 2
    /\ regions[1] # regions[2]

----------------------------------------------------------------------------
(* bbox_has_non_binary_pixels                                              *)

ClsGray == {0, 128, 255}     \* intensities used for the classified images
Thresholds == {DefaultThreshold, 200}
Deltas == {0, DefaultDelta, 128}
\* min_fraction as <<numerator, denominator>>; with these denominators and the
\* pixel counts of the model the float comparison equals the rational one
MinFractions == {<<0, 1>>, <<1, 100>>, <<1, 2>>}

\* lines 152-155: <<x0, y0, x1, y1>>
ClampBBox(b, width, height) ==
    LET x0 == Max2(0, b[1])
        y0 == Max2(0, b[2])
    IN  <<x0, y0, Min2(x0 + b[3], width), Min2(y0 + b[4], height)>>

\* line 159: Image.crop of a box inside the image
Crop(img, box) ==
    [w |-> box[3] - box[1], h |-> box[4] - box[2],
     px |-> [p \in Pixels(box[3] - box[1], box[4] - box[2]) |->
                img.px[<<p[1] + box[1], p[2] + box[2]>>]]]

\* line 162
Binarize(v, t) == IF v >= t THEN 255 ELSE 0

\* Pillow's rank filters read past the border the nearest pixel of the image
ClampCoord(v, n) == Max2(0, Min2(n - 1, v))

FilterWindow_RowOnly(p, w, h, size) ==
    {ClampCoord(p[1] + dx, w) : dx \in -(size \div 2) .. (size \div 2)} \X {p[2]}
FilterWindow(p, w, h, size) ==
    {ClampCoord(p[1] + dx, w) : dx \in -(size \div 2) .. (size \div 2)}
        \X {ClampCoord(p[2] + dy, h) : dy \in -(size \div 2) .. (size \div 2)}

\* ImageFilter.MaxFilter(size) and ImageFilter.MinFilter(size) of a w x h band
MaxFilter(px, w, h, size) ==
    [p \in Pixels(w, h) |-> SetMax({px[q] : q \in FilterWindow(p, w, h, size)})]
MinFilter(px, w, h, size) ==
    [p \in Pixels(w, h) |-> SetMin({px[q] : q \in FilterWindow(p, w, h, size)})]

\* ImageChops.difference and ImageChops.multiply on one pixel
ChopsDifference(a, b) == IF a >= b THEN a - b ELSE b - a
ChopsMultiply_Lighter(a, b) == Max2(a, b)
ChopsMultiply(a, b) == (a * b) \div 255

\* lines 162-173: the expanded edge band of a crop
EdgeBandOf(rg, t, radius) ==
    LET bw  == [p \in Pixels(rg.w, rg.h) |-> Binarize(rg.px[p], t)]
        dil == MaxFilter(bw, rg.w, rg.h, 3)
        ero == MinFilter(bw, rg.w, rg.h, 3)
        thin == [p \in Pixels(rg.w, rg.h) |-> ChopsDifference(dil[p], ero[p])]
    IN  IF radius > 0
        THEN MaxFilter(thin, rg.w, rg.h, Max2(1, 2 * radius + 1))
        ELSE thin

\* line 177
IsMidGray_NoUpperBound(v, d) == d <= v
IsMidGray(v, d) == d <= v /\ v <= 255 - d

\* line 183
OutsideOf(v) == IF v > 0 THEN 0 ELSE 255

\* lines 194-196: non_binary_pixels / valid_area >= min_fraction, valid_area > 0
FractionReached_Strict(non_binary_pixels, valid_area, mf) ==
    non_binary_pixels * mf[2] > mf[1] * valid_area
FractionReached(non_binary_pixels, valid_area, mf) ==
    non_binary_pixels * mf[2] >= mf[1] * valid_area

\* lines 187-188, 193: the pixels of a band that are > 0
CountPositive(band) == Cardinality({p \in DOMAIN band : band[p] > 0})

\* lines 161-196: the value returned for a crop; valid_area counts the
\* pixels of outside_edges that are > 0, non_binary_pixels those of them at
\* which the product with mid_gray is > 0
ResultOf(rg, t, d, radius, mf) ==
    LET band       == EdgeBandOf(rg, t, radius)
        outside    == {p \in Pixels(rg.w, rg.h) : OutsideOf(band[p]) > 0}
        non_binary == {p \in outside :
                          ChopsMultiply(IF IsMidGray(rg.px[p], d) THEN 255 ELSE 0,
                                        255) > 0}
    IN  /\ outside # {}
        /\ FractionReached(Cardinality(non_binary), Cardinality(outside), mf)

----------------------------------------------------------------------------
(* Inputs of bbox_has_non_binary_pixels                                    *)

\* a w x h image of intensity bg with the rectangle [xa, xb) x [ya, yb) of
\* intensity fg
PatchImage(w, h, bg, fg, xa, xb, ya, yb) ==
    Repaint(UniformImage(w, h, bg), (xa .. xb - 1) \X (ya .. yb - 1), fg)

PatchImages ==
    UNION { { PatchImage(w, h, bg, fg, xa, xb, ya, yb) :
                bg \in ClsGray, fg \in ClsGray,
                xa \in 0 .. w - 1, xb \in 1 .. w, ya \in 0 .. h - 1, yb \in 1 .. h } :
            w \in 1 .. MaxCW, h \in 1 .. MaxCH }

\* a smooth gradient from 0 to 255 across the width
GradientImage(w, h) ==
    [w |-> w, h |-> h, px |-> [p \in Pixels(w, h) |-> (255 * p[1]) \div (w - 1)]]

WholeImage(img) == <<0, 0, img.w, img.h>>

\* boxes that start before the image, reach past it, are empty or lie outside
OtherBoxes(img) ==
    {<<-1, 0, img.w, img.h>>, <<1, 0, img.w, img.h>>,
     <<0, -1, img.w, img.h>>, <<0, 1, img.w, img.h>>,
     <<0, 0, 0, img.h>>, <<0, 0, img.w, -1>>, <<img.w, 0, 1, 1>>}

InitClassifyWhole ==
    /\ image \in PatchImages
    /\ bbox = WholeImage(image)
    /\ threshold \in Thresholds
    /\ delta \in Deltas
    /\ edge_radius \in 0 .. MaxEdgeRadius
    /\ min_fraction \in MinFractions

InitClassifyBoxes ==
    /\ image \in PatchImages
    /\ bbox \in OtherBoxes(image)
    /\ threshold = DefaultThreshold
    /\ delta = DefaultDelta
    /\ edge_radius \in {0, DefaultEdgeRadius}
    /\ min_fraction = <<1, 100>>

\* Scenario D of the spec
InitClassifyGradient ==
    /\ \E w \in 2 .. MaxGradW, h \in 1 .. 2 : image = GradientImage(w, h)
    /\ bbox = WholeImage(image)
    /\ threshold = DefaultThreshold
    /\ delta = DefaultDelta
    /\ edge_radius = DefaultEdgeRadius
    /\ min_fraction = <<1, 100>>

\* boxes of positive size that lie wholly before the image
OutsideBoxes(img) == {<<-2, 0, 1, img.h>>, <<0, -2, img.w, 1>>}

InitClassifyOutside ==
    /\ image \in PatchImages
    /\ bbox \in OutsideBoxes(image)
    /\ threshold = DefaultThreshold
    /\ delta = DefaultDelta
    /\ edge_radius = DefaultEdgeRadius
    /\ min_fraction = <<1, 100>>

\* a bbox that is no 4-tuple
InitClassifyBadBox ==
    /\ image = UniformImage(1, 1, 0)
    /\ bbox = <<0, 0, 1>>
    /\ threshold = DefaultThreshold
    /\ delta = DefaultDelta
    /\ edge_radius = DefaultEdgeRadius
    /\ min_fraction = <<1, 100>>

\* no call of compare_images is running
CompareIdle ==
    /\ pc = "idle"
    /\ img_a = NoImage
    /\ img_b = NoImage
    /\ block_size = 1
    /\ padding = 0
    /\ force_square = FALSE
    /\ changed_blocks = {}
    /\ remaining = {}
    /\ queue = <<>>
    /\ cluster = {}
    /\ regions = <<>>

InitClassify ==
    /\ CompareIdle
    /\ PartialIdle
    /\ LoopIdle
    /\ LedsIdle
    /\ ButtonsIdle
    /\ RenderIdle
    /\ ConvertIdle
    /\ cls_pc = "start"
    /\ \/ InitClassifyWhole
       \/ InitClassifyBoxes
       \/ InitClassifyGradient
       \/ InitClassifyOutside
       \/ InitClassifyBadBox
    /\ region = NoImage
    /\ edge_band = NoImage.px
    /\ outside_edges = NoImage.px
    /\ mid_gray_outside = NoImage.px
    /\ result = FALSE

\* lines 139-140
RejectBBox ==
    /\ cls_pc = "start"
    /\ Len(bbox) # 4
    /\ cls_pc' = "error"
    /\ UNCHANGED <<image, bbox, threshold, delta, edge_radius, min_fraction,
                   region, edge_band, outside_edges, mid_gray_outside, result>>
    /\ UNCHANGED notClsVars

\* lines 142-144
ReturnDegenerate ==
    /\ cls_pc = "start"
    /\ Len(bbox) = 4
    /\ (bbox[3] <= 0 \/ bbox[4] <= 0)
    /\ result' = FALSE
    /\ cls_pc' = "done"
    /\ UNCHANGED <<image, bbox, threshold, delta, edge_radius, min_fraction,
                   region, edge_band, outside_edges, mid_gray_outside>>
    /\ UNCHANGED notClsVars

\* lines 146-157
ReturnEmptyClamp ==
    /\ cls_pc = "start"
    /\ Len(bbox) = 4
    /\ bbox[3] > 0 /\ bbox[4] > 0
    /\ LET box == ClampBBox(bbox, image.w, image.h)
       IN  box[1] >= box[3] \/ box[2] >= box[4]
    /\ result' = FALSE
    /\ cls_pc' = "done"
    /\ UNCHANGED <<image, bbox, threshold, delta, edge_radius, min_fraction,
                   region, edge_band, outside_edges, mid_gray_outside>>
    /\ UNCHANGED notClsVars

\* lines 146-159
CropRegion ==
    /\ cls_pc = "start"
    /\ Len(bbox) = 4
    /\ bbox[3] > 0 /\ bbox[4] > 0
    /\ LET box == ClampBBox(bbox, image.w, image.h)
       IN  /\ ~(box[1] >= box[3] \/ box[2] >= box[4])
           /\ region' = Crop(image, box)
    /\ cls_pc' = "cropped"
    /\ UNCHANGED <<image, bbox, threshold, delta, edge_radius, min_fraction,
                   edge_band, outside_edges, mid_gray_outside, result>>
    /\ UNCHANGED notClsVars

\* lines 161-173
DetectEdges ==
    /\ cls_pc = "cropped"
    /\ edge_band' = EdgeBandOf(region, threshold, edge_radius)
    /\ cls_pc' = "edges"
    /\ UNCHANGED <<image, bbox, threshold, delta, edge_radius, min_fraction,
                   region, outside_edges, mid_gray_outside, result>>
    /\ UNCHANGED notClsVars

\* lines 175-184
BuildMasks ==
    /\ cls_pc = "edges"
    /\ LET mid_gray == [p \in Pixels(region.w, region.h) |->
                           IF IsMidGray(region.px[p], delta) THEN 255 ELSE 0]
           outside  == [p \in Pixels(region.w, region.h) |-> OutsideOf(edge_band[p])]
       IN  /\ outside_edges' = outside
           /\ mid_gray_outside' =
                 [p \in Pixels(region.w, region.h) |->
                     ChopsMultiply(mid_gray[p], outside[p])]
    /\ cls_pc' = "masked"
    /\ UNCHANGED <<image, bbox, threshold, delta, edge_radius, min_fraction,
                   region, edge_band, result>>
    /\ UNCHANGED notClsVars

\* lines 186-191
ReturnAllEdge ==
    /\ cls_pc = "masked"
    /\ CountPositive(outside_edges) = 0
    /\ result' = FALSE
    /\ cls_pc' = "done"
    /\ UNCHANGED <<image, bbox, threshold, delta, edge_radius, min_fraction,
                   region, edge_band, outside_edges, mid_gray_outside>>
    /\ UNCHANGED notClsVars

\* lines 186-196
ReturnFraction ==
    /\ cls_pc = "masked"
    /\ CountPositive(outside_edges) # 0
    /\ result' = FractionReached(CountPositive(mid_gray_outside),
                                 CountPositive(outside_edges), min_fraction)
    /\ cls_pc' = "done"
    /\ UNCHANGED <<image, bbox, threshold, delta, edge_radius, min_fraction,
                   region, edge_band, outside_edges, mid_gray_outside>>
    /\ UNCHANGED notClsVars

NextClassify ==
    \/ RejectBBox
    \/ ReturnDegenerate
    \/ ReturnEmptyClamp
    \/ CropRegion
    \/ DetectEdges
    \/ BuildMasks
    \/ ReturnAllEdge
    \/ ReturnFraction

SpecClassify == InitClassify /\ [][NextClassify]_vars

----------------------------------------------------------------------------
(* Properties of bbox_has_non_binary_pixels                                *)

Returned == cls_pc = "done"

\* the call got as far as analysing a crop
Analysed == Returned /\ region.w > 0

CropPixels == DOMAIN region.px

\* every pixel of the crop is exactly 0 or 255
RegionIsBinary == \A p \in CropPixels : region.px[p] \in {0, 255}

MidValueOutside ==
    {p \in CropPixels : region.px[p] = 128 /\ outside_edges[p] > 0}

\* they are at least half of the crop and at least min_fraction of its area
HalfMidValueOutside ==
    /\ 2 * Cardinality(MidValueOutside) >= Cardinality(CropPixels)
    /\ Cardinality(MidValueOutside) * min_fraction[2]
          >= min_fraction[1] * Cardinality(CropPixels)

\* the image is a 0-to-255 gradient across its width and is analysed whole
GradientAnalysed ==
    /\ image.w >= 2
    /\ image = GradientImage(image.w, image.h)
    /\ bbox = WholeImage(image)
    /\ delta = 40
    /\ min_fraction = <<1, 100>>

\* C10 as stated: a crop of which half the pixels are 128 outside the edge
\* band, at least min_fraction of its area, is classified unsafe, and so is a
\* 0-to-255 gradient with delta = 40 and min_fraction = 0.01.
C10_HalfGrayAlwaysUnsafe ==
    /\ (Analysed /\ HalfMidValueOutside) => result = TRUE
    /\ (Analysed /\ GradientAnalysed) => result = TRUE

\* C10 (amended): such a crop is classified unsafe whenever delta <= 127, and
\* the gradient is classified unsafe with threshold = 127, delta = 40,
\* edge_radius = 2 and min_fraction = 0.01 when it is at least 11 pixels wide.
C10_HalfGrayUnsafeWhenMidGray ==
    /\ (Analysed /\ HalfMidValueOutside /\ delta <= 127) => result = TRUE
    /\ (/\ Analysed
        /\ GradientAnalysed
        /\ threshold = DefaultThreshold
        /\ edge_radius = DefaultEdgeRadius
        /\ image.w >= 11) => result = TRUE

\* half of the crop is 128 away from an edge that the crop also holds
C10_Witness ==
    /\ Analysed
    /\ HalfMidValueOutside
    /\ delta = DefaultDelta
    /\ min_fraction = <<1, 2>>
    /\ 2 * Cardinality(MidValueOutside) = Cardinality(CropPixels)
    /\ \E p \in CropPixels : edge_band[p] > 0
    /\ result = TRUE

\* the pixels of the crop outside the edge band, and those of them whose
\* intensity v satisfies delta <= v <= 255 - delta
OutsideBand == {p \in CropPixels : edge_band[p] = 0}
Suspicious ==
    {p \in OutsideBand : delta <= region.px[p] /\ region.px[p] <= 255 - delta}

\* C11: an analysed region is classified unsafe exactly when there is a pixel
\* outside the edge band and the number of suspicious pixels divided by the
\* number of pixels outside the band is at least min_fraction; with no pixel
\* outside the band the region is safe.
C11_UnsafeIffFractionReached ==
    Analysed =>
        (result = TRUE <=>
            /\ OutsideBand # {}
            /\ Cardinality(Suspicious) * min_fraction[2]
                   >= min_fraction[1] * Cardinality(OutsideBand))

\* an unsafe region with a mid-gray pixel inside the band, which is not
\* counted, and pixels outside the band only part of which are suspicious
C11_Witness ==
    /\ Analysed
    /\ result = TRUE
    /\ \E p \in CropPixels : edge_band[p] > 0 /\ IsMidGray(region.px[p], delta)
    /\ Suspicious # {}
    /\ Suspicious # OutsideBand

\* the rectangle [x, x+w) x [y, y+h) of a 4-tuple bbox cut at the image, as
\* <<x0, y0, x1, y1>>
IntersectionBox ==
    <<Max2(0, bbox[1]), Max2(0, bbox[2]),
      Min2(bbox[1] + bbox[3], image.w), Min2(bbox[2] + bbox[4], image.h)>>

\* the bbox has positive size and shares a pixel with the image
BoxMeetsImage ==
    /\ bbox[3] > 0
    /\ bbox[4] > 0
    /\ IntersectionBox[1] < IntersectionBox[3]
    /\ IntersectionBox[2] < IntersectionBox[4]

\* C12 as stated: a region of width or height <= 0, or one that has no pixel
\* left after clamping to the image, is classified safe without raising.
C12_DegenerateIsSafe ==
    (cls_pc \in {"done", "error"} /\ Len(bbox) = 4 /\ ~BoxMeetsImage) =>
        (cls_pc = "done" /\ result = FALSE)

\* C13 as stated: the pixels analysed are exactly those of the intersection of
\* [x, x+w) x [y, y+h) with the image.
C13_AnalysesIntersection ==
    (cls_pc \in {"cropped", "edges", "masked", "done"} /\ Len(bbox) = 4) =>
        region = IF BoxMeetsImage THEN Crop(image, IntersectionBox) ELSE NoImage

----------------------------------------------------------------------------
(* EInkDisplay.partial_update (src/display.py lines 108-198)                *)

\* line 170: the lambda given to Image.point
PointThreshold(p) == IF p > 127 THEN 255 ELSE 0

\* lines 144-145; a // b floors, as \div does
align_to_bytes_NoCeil(x0, x1) == <<(x0 \div 8) * 8, x1>>
align_to_bytes_FloorBoth(x0, x1) == <<(x0 \div 8) * 8, (x1 \div 8) * 8>>
align_to_bytes(x0, x1) == <<(x0 \div 8) * 8, ((x1 + 7) \div 8) * 8>>

\* lines 157-160: max(0, min(v, panel size))
ClampToPanel_NoUpper(v, n) == Max2(0, v)
ClampToPanel(v, n) == Max2(0, Min2(v, n))

\* Image.rotate(90, expand=True): a quarter turn counter-clockwise
Rotate90(img) ==
    [w |-> img.h, h |-> img.w,
     px |-> [p \in Pixels(img.h, img.w) |-> img.px[<<img.w - 1 - p[2], p[1]>>]]]

\* lines 132-135, for an image sized like the panel or like the panel turned
BaseOf(img, pw, ph) ==
    IF <<img.w, img.h>> = <<pw, ph>> THEN img ELSE Rotate90(img)

\* Image.crop reads 0 where the box reaches past the image
CropAt(img, x, y) ==
    IF x >= 0 /\ x < img.w /\ y >= 0 /\ y < img.h THEN img.px[<<x, y>>] ELSE 0

\* tobytes('raw') of a mode "1" image packs eight pixels into a byte, the
\* leftmost in the highest bit, a bit being 1 where the pixel is not 0
RECURSIVE PackBits(_, _)
PackBits(bits, n) ==
    IF n = 0 THEN 0 ELSE 2 * PackBits(bits, n - 1) + bits[n]
PackByte_LSBFirst(bits) == PackBits([j \in 1 .. 8 |-> bits[9 - j]], 8)
PackByte(bits) == PackBits(bits, 8)

\* line 178: raw[i] ^= 0xFF on a byte
InvertByte(b) == 255 - b

\* lines 169-178: the bytes sent for the rectangle [ax0, ax1) x [y0, y1)
Payload(img, ax0, y0, ax1, y1) ==
    LET wb == (ax1 - ax0 + 7) \div 8
    IN  [i \in 1 .. wb * (y1 - y0) |->
            LET r == (i - 1) \div wb
                k == (i - 1) % wb
                bits == [j \in 1 .. 8 |->
                            IF /\ ax0 + 8 * k + j - 1 < ax1
                               /\ PointThreshold(CropAt(img, ax0 + 8 * k + j - 1,
                                                        y0 + r)) # 0
                            THEN 1 ELSE 0]
            IN  InvertByte(PackByte(bits))]

\* line 149: isinstance(region, tuple) and len(region) == 4
IsTuple4(item) == item.kind \in {"tuple4", "tuple4_str"}

\* the region the loop is at
Current == pu_regions[idx]

\* lines 157-160 for the region the loop is at: <<x0, y0, x1, y1>>
Clamped ==
    LET b == Current.box
    IN  <<ClampToPanel(b[1], panel_w), ClampToPanel(b[2], panel_h),
          ClampToPanel(b[1] + b[3], panel_w), ClampToPanel(b[2] + b[4], panel_h)>>

Aligned == align_to_bytes(Clamped[1], Clamped[3])

----------------------------------------------------------------------------
(* Inputs of partial_update                                                *)

\* intensities on both sides of the 127 threshold, and next to it
PanelGray == <<0, 127, 128, 255, 200>>

PanelImage(w, h, k) ==
    [w |-> w, h |-> h,
     px |-> [p \in Pixels(w, h) |-> PanelGray[((k * p[1] + 2 * p[2]) % 5) + 1]]]

PanelBoxes(pw, ph) ==
    {<<3, 0, 10, ph>>, <<8, 0, 8, 1>>, <<0, 0, pw, ph>>,
     <<-1, 0, 2, 1>>, <<pw - 1, 0, 2, 1>>, <<0, ph - 1, 1, 2>>,
     <<0, 0, 0, 1>>, <<0, 0, 1, -1>>,
     <<pw, 0, 1, 1>>, <<0, ph, 1, 1>>, <<-2, 0, 1, 1>>}

\* 4-tuples of integers; a list, a 3-tuple, and the 4-tuple (0, 0, "8", 1)
\* whose box field holds the digits of its entries
RegionItems(pw, ph) ==
    {[kind |-> "tuple4", box |-> b] : b \in PanelBoxes(pw, ph)}
        \cup {[kind |-> "list", box |-> <<0, 0, 8, 1>>],
              [kind |-> "tuple3", box |-> <<0, 0, 8>>],
              [kind |-> "tuple4_str", box |-> <<0, 0, 8, 1>>]}

RegionLists(pw, ph) ==
    UNION {[1 .. n -> RegionItems(pw, ph)] : n \in 1 .. MaxRegions}

PanelWidths == (MaxPW - 5) .. MaxPW

\* the image has the size of the panel
InitPartialLists ==
    /\ file_exists = TRUE
    /\ \E w \in PanelWidths, h \in 1 .. MaxPH, k \in 1 .. 2 :
          src = PanelImage(w, h, k)
    /\ emulated \in BOOLEAN
    /\ epd_width = IF emulated THEN 0 ELSE src.w
    /\ epd_height = IF emulated THEN 0 ELSE src.h
    /\ pu_regions \in RegionLists(src.w, src.h)

\* the image has the size of the panel turned by a quarter
InitPartialTurned ==
    /\ file_exists = TRUE
    /\ \E w \in PanelWidths, h \in 1 .. MaxPH : src = PanelImage(w, h, 1)
    /\ emulated = FALSE
    /\ epd_width = src.h
    /\ epd_height = src.w
    /\ \E b \in PanelBoxes(src.h, src.w) :
          pu_regions = <<[kind |-> "tuple4", box |-> b]>>

\* Scenario E of the spec
ScenarioE == <<[kind |-> "tuple4", box |-> <<3, 0, 10, 8>>]>>

InitPartialScenario ==
    /\ file_exists = TRUE
    /\ \E k \in 1 .. 2 : src = PanelImage(24, 8, k)
    /\ emulated \in BOOLEAN
    /\ epd_width = IF emulated THEN 0 ELSE src.w
    /\ epd_height = IF emulated THEN 0 ELSE src.h
    /\ pu_regions = ScenarioE

\* no file at bmp_path, or an empty list of regions
InitPartialNothing ==
    /\ file_exists \in BOOLEAN
    /\ src = IF file_exists THEN PanelImage(8, 1, 1) ELSE NoImage
    /\ emulated \in BOOLEAN
    /\ epd_width = IF emulated THEN 0 ELSE 8
    /\ epd_height = IF emulated THEN 0 ELSE 1
    /\ pu_regions \in {<<>>, <<[kind |-> "tuple4", box |-> <<0, 0, 8, 1>>]>>}
    /\ ~file_exists \/ pu_regions = <<>>

InitPartial ==
    /\ CompareIdle
    /\ ClassifyIdle
    /\ LoopIdle
    /\ LedsIdle
    /\ ButtonsIdle
    /\ RenderIdle
    /\ ConvertIdle
    /\ pu_pc = "start"
    /\ \/ InitPartialLists
       \/ InitPartialTurned
       \/ InitPartialScenario
       \/ InitPartialNothing
    /\ epd_mode = "asleep"
    /\ panel_w = 0
    /\ panel_h = 0
    /\ base_gray = NoImage
    /\ idx = 0
    /\ sent = <<>>
    /\ up_pc = "idle"
    /\ epd_calls = <<>>

puInputs == <<file_exists, emulated, epd_width, epd_height, src, pu_regions>>

\* lines 114-116
ReturnNoFile ==
    /\ pu_pc = "start"
    /\ ~file_exists
    /\ pu_pc' = "done"
    /\ UNCHANGED <<puInputs, epd_mode, panel_w, panel_h, base_gray, idx, sent,
                   up_pc, epd_calls>>
    /\ UNCHANGED notPuVars

\* lines 118-120
ReturnNoRegions ==
    /\ pu_pc = "start"
    /\ file_exists
    /\ pu_regions = <<>>
    /\ pu_pc' = "done"
    /\ UNCHANGED <<puInputs, epd_mode, panel_w, panel_h, base_gray, idx, sent,
                   up_pc, epd_calls>>
    /\ UNCHANGED notPuVars

\* lines 122-148: init_part, panel size, image in panel orientation
EnterPartial ==
    /\ pu_pc = "start"
    /\ file_exists
    /\ pu_regions # <<>>
    /\ epd_mode' = "partial"
    /\ panel_w' = IF emulated THEN src.w ELSE epd_width
    /\ panel_h' = IF emulated THEN src.h ELSE epd_height
    /\ base_gray' = BaseOf(src, panel_w', panel_h')
    /\ idx' = 1
    /\ pu_pc' = "loop"
    /\ epd_calls' = Append(epd_calls, "init_part")
    /\ UNCHANGED <<puInputs, sent, up_pc>>
    /\ UNCHANGED notPuVars

\* lines 149-151
SkipInvalid ==
    /\ pu_pc = "loop"
    /\ idx <= Len(pu_regions)
    /\ ~IsTuple4(Current)
    /\ idx' = idx + 1
    /\ UNCHANGED <<puInputs, pu_pc, epd_mode, panel_w, panel_h, base_gray, sent,
                   up_pc, epd_calls>>
    /\ UNCHANGED notPuVars

\* lines 152-153 with an entry that is no number: w <= 0 raises TypeError,
\* lines 191-198 log it, put the panel to sleep and raise it again
RaiseOnRegion ==
    /\ pu_pc = "loop"
    /\ idx <= Len(pu_regions)
    /\ Current.kind = "tuple4_str"
    /\ epd_mode' = "asleep"
    /\ epd_calls' = Append(epd_calls, "sleep")
    /\ pu_pc' = "error"
    /\ UNCHANGED <<puInputs, panel_w, panel_h, base_gray, idx, sent, up_pc>>
    /\ UNCHANGED notPuVars

\* lines 152-154
SkipDegenerate ==
    /\ pu_pc = "loop"
    /\ idx <= Len(pu_regions)
    /\ Current.kind = "tuple4"
    /\ Current.box[3] <= 0 \/ Current.box[4] <= 0
    /\ idx' = idx + 1
    /\ UNCHANGED <<puInputs, pu_pc, epd_mode, panel_w, panel_h, base_gray, sent,
                   up_pc, epd_calls>>
    /\ UNCHANGED notPuVars

\* lines 156-167
SkipOutside ==
    /\ pu_pc = "loop"
    /\ idx <= Len(pu_regions)
    /\ Current.kind = "tuple4"
    /\ Current.box[3] > 0 /\ Current.box[4] > 0
    /\ \/ Clamped[1] >= Clamped[3]
       \/ Clamped[2] >= Clamped[4]
       \/ Aligned[1] >= Aligned[2]
    /\ idx' = idx + 1
    /\ UNCHANGED <<puInputs, pu_pc, epd_mode, panel_w, panel_h, base_gray, sent,
                   up_pc, epd_calls>>
    /\ UNCHANGED notPuVars

\* lines 156-189: the emulator's display_Partial raises TypeError on the call
\* with coordinates before doing anything and carries out the one without
Transmit ==
    /\ pu_pc = "loop"
    /\ idx <= Len(pu_regions)
    /\ Current.kind = "tuple4"
    /\ Current.box[3] > 0 /\ Current.box[4] > 0
    /\ Clamped[1] < Clamped[3]
    /\ Clamped[2] < Clamped[4]
    /\ Aligned[1] < Aligned[2]
    /\ sent' = Append(sent,
                 [idx |-> idx,
                  raw |-> Payload(base_gray, Aligned[1], Clamped[2],
                                  Aligned[2], Clamped[4]),
                  ax0 |-> Aligned[1], y0 |-> Clamped[2],
                  ax1 |-> Aligned[2], y1 |-> Clamped[4],
                  with_coords |-> ~emulated])
    /\ idx' = idx + 1
    /\ epd_calls' = Append(epd_calls, "display_Partial")
    /\ UNCHANGED <<puInputs, pu_pc, epd_mode, panel_w, panel_h, base_gray, up_pc>>
    /\ UNCHANGED notPuVars

\* lines 148, 194-198: the list is through, the panel is put to sleep
FinishPartial ==
    /\ pu_pc = "loop"
    /\ idx > Len(pu_regions)
    /\ epd_mode' = "asleep"
    /\ epd_calls' = Append(epd_calls, "sleep")
    /\ pu_pc' = "done"
    /\ UNCHANGED <<puInputs, panel_w, panel_h, base_gray, idx, sent, up_pc>>
    /\ UNCHANGED notPuVars

\* lines 125, 191-198: init_part of the panel driver raises; the handler logs
\* and raises again, the finally puts the panel to sleep
InitPartRaises ==
    /\ pu_pc = "start"
    /\ file_exists
    /\ pu_regions # <<>>
    /\ ~emulated
    /\ epd_calls' = epd_calls \o <<"init_part", "sleep">>
    /\ pu_pc' = "error"
    /\ UNCHANGED <<puInputs, epd_mode, panel_w, panel_h, base_gray, idx, sent,
                   up_pc>>
    /\ UNCHANGED notPuVars

\* lines 186, 191-198: display_Partial of the panel driver raises something
\* other than TypeError
TransmitRaises ==
    /\ pu_pc = "loop"
    /\ idx <= Len(pu_regions)
    /\ Current.kind = "tuple4"
    /\ Current.box[3] > 0 /\ Current.box[4] > 0
    /\ Clamped[1] < Clamped[3]
    /\ Clamped[2] < Clamped[4]
    /\ Aligned[1] < Aligned[2]
    /\ ~emulated
    /\ epd_calls' = epd_calls \o <<"display_Partial", "sleep">>
    /\ epd_mode' = "asleep"
    /\ pu_pc' = "error"
    /\ UNCHANGED <<puInputs, panel_w, panel_h, base_gray, idx, sent, up_pc>>
    /\ UNCHANGED notPuVars

NextPartial ==
    \/ ReturnNoFile
    \/ ReturnNoRegions
    \/ InitPartRaises
    \/ TransmitRaises
    \/ EnterPartial
    \/ SkipInvalid
    \/ RaiseOnRegion
    \/ SkipDegenerate
    \/ SkipOutside
    \/ Transmit
    \/ FinishPartial

SpecPartial == InitPartial /\ [][NextPartial]_vars

----------------------------------------------------------------------------
(* Properties of partial_update                                            *)

\* the box (x, y, w, h) of the region a display_Partial call was made for
RequestedBox(s) == pu_regions[s.idx].box

\* C14: for every transmitted region the left edge ax0 and the width
\* ax1 - ax0 are multiples of 8, and y0, y1 are those of the region cut at the
\* panel: y0 is y or 0, y1 is y + h or the panel height.
C14_AlignedHorizontallyOnly ==
    \A i \in DOMAIN sent :
        LET s == sent[i]
            b == RequestedBox(s)
        IN  /\ s.ax0 % 8 = 0
            /\ (s.ax1 - s.ax0) % 8 = 0
            /\ s.y0 = (IF b[2] < 0 THEN 0 ELSE b[2])
            /\ s.y1 = (IF b[2] + b[4] > panel_h THEN panel_h ELSE b[2] + b[4])

\* a region whose left and right edges were both moved by the alignment and
\* whose bottom edge is no multiple of 8
C14_Witness ==
    \E i \in DOMAIN sent :
        LET s == sent[i]
            b == RequestedBox(s)
        IN  /\ s.ax0 < b[1]
            /\ s.ax1 > b[1] + b[3]
            /\ s.y1 % 8 # 0

\* C15 as stated: the transmitted rectangle contains the requested one.
C15_ContainsRequested ==
    \A i \in DOMAIN sent :
        LET s == sent[i]
            b == RequestedBox(s)
        IN  /\ s.ax0 <= b[1]
            /\ s.ax1 >= b[1] + b[3]
            /\ s.y0 <= b[2]
            /\ s.y1 >= b[2] + b[4]

\* C15 (amended): the transmitted rectangle contains the part of the requested
\* rectangle that lies on the panel.
C15_ContainsRequestedOnPanel ==
    \A i \in DOMAIN sent :
        LET s == sent[i]
            b == RequestedBox(s)
        IN  /\ s.ax0 <= Max2(0, b[1])
            /\ s.ax1 >= Min2(b[1] + b[3], panel_w)
            /\ s.y0 <= Max2(0, b[2])
            /\ s.y1 >= Min2(b[2] + b[4], panel_h)

\* a region starting left of the panel, transmitted wider than what is left
\* of it on the panel
C15_Witness ==
    \E i \in DOMAIN sent :
        /\ RequestedBox(sent[i])[1] < 0
        /\ sent[i].ax1 > RequestedBox(sent[i])[1] + RequestedBox(sent[i])[3]

RectOnPanel(s) ==
    /\ 0 <= s.ax0 /\ s.ax0 < s.ax1 /\ s.ax1 <= panel_w
    /\ 0 <= s.y0 /\ s.y0 < s.y1 /\ s.y1 <= panel_h

\* C16 as stated: every transmitted rectangle lies within the panel, whatever
\* the panel size.
C16_WithinPanel == \A i \in DOMAIN sent : RectOnPanel(sent[i])

\* C16 (amended): every transmitted rectangle lies within the panel when the
\* panel width is a multiple of 8.
C16_WithinByteAlignedPanel ==
    panel_w % 8 = 0 => \A i \in DOMAIN sent : RectOnPanel(sent[i])

\* on a panel 8k wide, a region reaching past the right edge is transmitted
\* up to that edge
C16_Witness ==
    /\ panel_w % 8 = 0
    /\ \E i \in DOMAIN sent :
          /\ RequestedBox(sent[i])[1] + RequestedBox(sent[i])[3] > panel_w
          /\ sent[i].ax1 = panel_w

\* bit 7 - j of a byte
BitOf(byte, j) == (byte \div 2 ^ (7 - j)) % 2

\* C17: the payload of a rectangle of aligned width W and height H has
\* (W / 8) * H bytes, and the pixel in row r and column 8k + j of the crop is
\* bit 7 - j of byte r * (W / 8) + k, which is 1 exactly when the pixel's
\* intensity is <= 127; the region (3, 0, 10, 8) on a panel at least 24 wide
\* is sent as the rectangle (0, 0, 16, 8) in 16 bytes.
C17_PayloadBits ==
    \A i \in DOMAIN sent :
        LET s == sent[i]
            W == s.ax1 - s.ax0
            H == s.y1 - s.y0
        IN  /\ Len(s.raw) = (W \div 8) * H
            /\ \A r \in 0 .. H - 1, k \in 0 .. (W \div 8) - 1, j \in 0 .. 7 :
                  BitOf(s.raw[r * (W \div 8) + k + 1], j) = 1
                      <=> CropAt(base_gray, s.ax0 + 8 * k + j, s.y0 + r) <= 127
            /\ (pu_regions = ScenarioE /\ panel_w >= 24) =>
                  /\ <<s.ax0, s.y0, s.ax1, s.y1>> = <<0, 0, 16, 8>>
                  /\ Len(s.raw) = 16

\* Scenario E has been transmitted, with a byte of mixed bits
C17_Witness ==
    /\ pu_regions = ScenarioE
    /\ pu_pc = "done"
    /\ Len(sent) = 1
    /\ \E n \in DOMAIN sent[1].raw : sent[1].raw[n] \notin {0, 255}

\* region i of the list is a 4-tuple of positive size that shares a pixel
\* with the panel
IsGoodRegion(i) ==
    /\ pu_regions[i].kind = "tuple4"
    /\ LET b == pu_regions[i].box
       IN  /\ b[3] > 0 /\ b[4] > 0
           /\ b[1] < panel_w /\ b[1] + b[3] > 0
           /\ b[2] < panel_h /\ b[2] + b[4] > 0

GoodIndices == SelectSeq([i \in 1 .. Len(pu_regions) |-> i], IsGoodRegion)

\* C18 as stated, with the emulator, whose calls never fail, as the driver:
\* whatever the list of regions, the call does not abort, the malformed,
\* degenerate and outside regions are dropped, and the others are transmitted
\* once each in the order of the list.
C18_BadRegionsDropped ==
    (pu_pc \in {"done", "error"} /\ file_exists /\ pu_regions # <<>> /\ emulated) =>
        /\ pu_pc = "done"
        /\ [i \in DOMAIN sent |-> sent[i].idx] = GoodIndices

----------------------------------------------------------------------------
(* DisplayManager.run, perform_display_cycle, wait_with_interrupt and      *)
(* trigger_refresh (src/main.py lines 46-144)                              *)

\* lines 68-71, 77-80, 87-90: the step called raised; fault(), then raise
OnRaise_NoFault(log, step) == Append(log, step)
OnRaise(log, step) == log \o <<step, "fault">>

\* line 105: wait_for(refresh_event.wait(), timeout=duration) stops blocking
WaitOver_TimeoutOnly(event, waited, duration) == waited >= duration
WaitOver(event, waited, duration) == event \/ waited >= duration

\* display.py lines 40-44: the driver calls of display_image, in order; the
\* image is opened and converted between them
DisplayImageCalls == <<"init_4Gray", "display_4Gray">>

\* display.py lines 51-57: EInkDisplay.sleep calls epd.sleep()
EpdSleep(log) == Append(log, "sleep")

\* positions at which run() is suspended in an await that can block, so that
\* the event loop runs the callbacks queued by call_soon_threadsafe
Awaiting == {"render", "backoff", "waiting", "timed_out"}

InitLoop ==
    /\ CompareIdle
    /\ ClassifyIdle
    /\ PartialIdle
    /\ LedsIdle
    /\ ButtonsIdle
    /\ RenderIdle
    /\ ConvertIdle
    /\ main_pc = "init"
    /\ loop_set = FALSE
    /\ buttons_started = FALSE
    /\ refresh_event = FALSE
    /\ refresh_lock = FALSE
    /\ pending_sets = 0
    /\ refresh_interval \in 1 .. MaxInterval
    /\ elapsed = 0
    /\ wait_outcome = "none"
    /\ calls = <<>>
    /\ unserved = FALSE
    /\ cycle_epd = <<>>

\* lines 113-131: the loop is stored, the panel cleared, the buttons started
RunStart ==
    /\ main_pc = "init"
    /\ loop_set' = TRUE
    /\ buttons_started' = TRUE
    /\ main_pc' = "cycle"
    /\ UNCHANGED <<refresh_event, refresh_lock, pending_sets, refresh_interval,
                   elapsed, wait_outcome, calls>>
    /\ UNCHANGED <<unserved, cycle_epd>>
    /\ UNCHANGED notLoopVars

\* lines 46-53, called by the button thread
TriggerRefresh_NotQueued ==
    /\ buttons_started
    /\ pending_sets < MaxPending
    /\ unserved' = TRUE
    /\ UNCHANGED <<main_pc, loop_set, buttons_started, refresh_event,
                   refresh_lock, pending_sets, refresh_interval, elapsed,
                   wait_outcome, calls, cycle_epd>>
    /\ UNCHANGED notLoopVars
TriggerRefresh ==
    /\ buttons_started
    /\ pending_sets < MaxPending
    /\ pending_sets' = IF loop_set THEN pending_sets + 1 ELSE pending_sets
    /\ UNCHANGED <<main_pc, loop_set, buttons_started, refresh_event,
                   refresh_lock, refresh_interval, elapsed, wait_outcome, calls>>
    /\ unserved' = TRUE
    /\ UNCHANGED cycle_epd
    /\ UNCHANGED notLoopVars

\* the event loop runs a queued refresh_event.set
DeliverSet ==
    /\ pending_sets > 0
    /\ main_pc \in Awaiting
    /\ pending_sets' = pending_sets - 1
    /\ refresh_event' = TRUE
    /\ UNCHANGED <<main_pc, loop_set, buttons_started, refresh_lock,
                   refresh_interval, elapsed, wait_outcome, calls>>
    /\ UNCHANGED <<unserved, cycle_epd>>
    /\ UNCHANGED notLoopVars

\* lines 57-61: the lock is taken and the loading animation started
StartCycle ==
    /\ main_pc = "cycle"
    /\ refresh_lock' = TRUE
    /\ calls' = <<"loading">>
    /\ main_pc' = "render"
    /\ UNCHANGED <<loop_set, buttons_started, refresh_event, pending_sets,
                   refresh_interval, elapsed, wait_outcome>>
    /\ unserved' = FALSE
    /\ cycle_epd' = <<>>
    /\ UNCHANGED notLoopVars

\* A step of the cycle that raises: the handler of the step calls fault() and
\* raises again, the lock is released, and run() logs the failure (lines
\* 135-139) and starts the back-off.

\* line 67
RenderReturns ==
    /\ main_pc = "render"
    /\ calls' = Append(calls, "render_to_png")
    /\ main_pc' = "convert"
    /\ UNCHANGED <<loop_set, buttons_started, refresh_event, refresh_lock,
                   pending_sets, refresh_interval, elapsed, wait_outcome>>
    /\ UNCHANGED <<unserved, cycle_epd>>
    /\ UNCHANGED notLoopVars

\* lines 67-71, 96-98, 135-139
RenderRaises ==
    /\ main_pc = "render"
    /\ calls' = OnRaise(calls, "render_to_png")
    /\ refresh_lock' = FALSE
    /\ main_pc' = "backoff"
    /\ UNCHANGED <<loop_set, buttons_started, refresh_event, pending_sets,
                   refresh_interval, elapsed, wait_outcome>>
    /\ UNCHANGED <<unserved, cycle_epd>>
    /\ UNCHANGED notLoopVars

\* line 76
ConvertReturns ==
    /\ main_pc = "convert"
    /\ calls' = Append(calls, "convert")
    /\ main_pc' = "display"
    /\ UNCHANGED <<loop_set, buttons_started, refresh_event, refresh_lock,
                   pending_sets, refresh_interval, elapsed, wait_outcome>>
    /\ UNCHANGED <<unserved, cycle_epd>>
    /\ UNCHANGED notLoopVars

\* lines 76-80, 96-98, 135-139
ConvertRaises ==
    /\ main_pc = "convert"
    /\ calls' = OnRaise(calls, "convert")
    /\ refresh_lock' = FALSE
    /\ main_pc' = "backoff"
    /\ UNCHANGED <<loop_set, buttons_started, refresh_event, pending_sets,
                   refresh_interval, elapsed, wait_outcome>>
    /\ UNCHANGED <<unserved, cycle_epd>>
    /\ UNCHANGED notLoopVars

\* line 85
DisplayImageReturns ==
    /\ main_pc = "display"
    /\ calls' = Append(calls, "display_image")
    /\ main_pc' = "sleep"
    /\ UNCHANGED <<loop_set, buttons_started, refresh_event, refresh_lock,
                   pending_sets, refresh_interval, elapsed, wait_outcome>>
    /\ \E driven \in {<<>>, DisplayImageCalls} : cycle_epd' = driven
    /\ UNCHANGED unserved
    /\ UNCHANGED notLoopVars

\* lines 85-90, 96-98, 135-139
DisplayImageRaises ==
    /\ main_pc = "display"
    /\ calls' = OnRaise(calls, "display_image")
    /\ refresh_lock' = FALSE
    /\ main_pc' = "backoff"
    /\ UNCHANGED <<loop_set, buttons_started, refresh_event, pending_sets,
                   refresh_interval, elapsed, wait_outcome>>
    /\ \E n \in DOMAIN DisplayImageCalls :
          cycle_epd' = SubSeq(DisplayImageCalls, 1, n)
    /\ UNCHANGED unserved
    /\ UNCHANGED notLoopVars

\* line 86; display.sleep() logs and swallows what the driver raises
\* (display.py lines 51-57)
DisplaySleep ==
    /\ main_pc = "sleep"
    /\ calls' = Append(calls, "sleep")
    /\ main_pc' = "success"
    /\ UNCHANGED <<loop_set, buttons_started, refresh_event, refresh_lock,
                   pending_sets, refresh_interval, elapsed, wait_outcome>>
    /\ cycle_epd' = EpdSleep(cycle_epd)
    /\ UNCHANGED unserved
    /\ UNCHANGED notLoopVars

\* lines 92-94 and 143-144, 100-105: success(), the lock is released, the wait begins
Success ==
    /\ main_pc = "success"
    /\ calls' = Append(calls, "success")
    /\ refresh_lock' = FALSE
    /\ elapsed' = 0
    /\ wait_outcome' = "none"
    /\ main_pc' = "waiting"
    /\ UNCHANGED <<loop_set, buttons_started, refresh_event, pending_sets,
                   refresh_interval>>
    /\ UNCHANGED <<unserved, cycle_epd>>
    /\ UNCHANGED notLoopVars

\* lines 139-140: asyncio.sleep(10) is over
BackoffOver ==
    /\ main_pc = "backoff"
    /\ main_pc' = "cycle"
    /\ UNCHANGED <<loop_set, buttons_started, refresh_event, refresh_lock,
                   pending_sets, refresh_interval, elapsed, wait_outcome, calls>>
    /\ UNCHANGED <<unserved, cycle_epd>>
    /\ UNCHANGED notLoopVars

\* a second passes while wait_for blocks
Tick ==
    /\ main_pc = "waiting"
    /\ ~WaitOver(refresh_event, elapsed, refresh_interval)
    /\ elapsed' = elapsed + 1
    /\ UNCHANGED <<main_pc, loop_set, buttons_started, refresh_event,
                   refresh_lock, pending_sets, refresh_interval, wait_outcome,
                   calls>>
    /\ UNCHANGED <<unserved, cycle_epd>>
    /\ UNCHANGED notLoopVars

\* lines 105-106, 109-111: refresh_event.wait() returned
WaitInterrupted ==
    /\ main_pc = "waiting"
    /\ WaitOver(refresh_event, elapsed, refresh_interval)
    /\ refresh_event
    /\ wait_outcome' = "interrupted"
    /\ refresh_event' = FALSE
    /\ main_pc' = "cycle"
    /\ UNCHANGED <<loop_set, buttons_started, refresh_lock, pending_sets,
                   refresh_interval, elapsed, calls>>
    /\ UNCHANGED <<unserved, cycle_epd>>
    /\ UNCHANGED notLoopVars

\* line 105: the timeout fires and wait_for cancels refresh_event.wait()
WaitTimeout ==
    /\ main_pc = "waiting"
    /\ WaitOver(refresh_event, elapsed, refresh_interval)
    /\ elapsed >= refresh_interval
    /\ main_pc' = "timed_out"
    /\ UNCHANGED <<loop_set, buttons_started, refresh_event, refresh_lock,
                   pending_sets, refresh_interval, elapsed, wait_outcome, calls>>
    /\ UNCHANGED <<unserved, cycle_epd>>
    /\ UNCHANGED notLoopVars

\* lines 107-111: TimeoutError reaches wait_with_interrupt
FinishTimeout ==
    /\ main_pc = "timed_out"
    /\ wait_outcome' = "timeout"
    /\ refresh_event' = FALSE
    /\ main_pc' = "cycle"
    /\ UNCHANGED <<loop_set, buttons_started, refresh_lock, pending_sets,
                   refresh_interval, elapsed, calls>>
    /\ UNCHANGED <<unserved, cycle_epd>>
    /\ UNCHANGED notLoopVars

NextLoop ==
    \/ RunStart
    \/ TriggerRefresh
    \/ DeliverSet
    \/ StartCycle
    \/ RenderReturns
    \/ RenderRaises
    \/ ConvertReturns
    \/ ConvertRaises
    \/ DisplayImageReturns
    \/ DisplayImageRaises
    \/ DisplaySleep
    \/ Success
    \/ BackoffOver
    \/ Tick
    \/ WaitInterrupted
    \/ WaitTimeout
    \/ FinishTimeout

SpecLoop == InitLoop /\ [][NextLoop]_vars

\* the event loop runs a queued callback and resumes a coroutine whose wait is
\* over; nothing is assumed about the passing of time or about the buttons
SpecLoopFair ==
    /\ SpecLoop
    /\ WF_vars(DeliverSet)
    /\ WF_vars(WaitInterrupted)
    /\ WF_vars(FinishTimeout)

\* as SpecLoopFair, and every await of run() other than the wait comes to an
\* end: render_to_png, convert and display_image return or raise, the
\* back-off sleep is over after its 10 seconds, the timeout of wait_for
\* fires once the interval has elapsed, and the coroutine goes on when
\* nothing blocks it.  Still nothing is assumed about the refresh interval
\* elapsing or about the buttons.
SpecLoopLive ==
    /\ SpecLoopFair
    /\ WF_vars(WaitTimeout)
    /\ WF_vars(RunStart)
    /\ WF_vars(StartCycle)
    /\ WF_vars(RenderReturns \/ RenderRaises)
    /\ WF_vars(ConvertReturns \/ ConvertRaises)
    /\ WF_vars(DisplayImageReturns \/ DisplayImageRaises)
    /\ WF_vars(DisplaySleep)
    /\ WF_vars(Success)
    /\ WF_vars(BackoffOver)

----------------------------------------------------------------------------
(* Properties of the display cycle and of the wait                         *)

FullCycle ==
    <<"loading", "render_to_png", "convert", "display_image", "sleep", "success">>

Faults == SelectSeq(calls, LAMBDA c : c = "fault")

\* C19: the calls of a display cycle are a prefix of loading, render_to_png,
\* convert, display_image, sleep, success, possibly followed by fault; fault
\* is called at most once, right after the step that raised, nothing is called
\* after it and the exception reaches run(), which goes into the back-off;
\* run() goes into the back-off in no other way, and success is called only
\* after all steps.
C19_CycleOrder ==
    LET steps == SelectSeq(calls, LAMBDA c : c # "fault")
    IN  /\ Len(steps) <= Len(FullCycle)
        /\ steps = SubSeq(FullCycle, 1, Len(steps))
        /\ Len(Faults) <= 1
        /\ Len(Faults) = 1 =>
              /\ calls[Len(calls)] = "fault"
              /\ Len(calls) >= 3
              /\ calls[Len(calls) - 1] \in {"render_to_png", "convert", "display_image"}
              /\ main_pc \in {"backoff", "cycle"}
        /\ main_pc = "backoff" => Len(Faults) = 1
        /\ main_pc \in {"waiting", "timed_out"} => calls = FullCycle

\* the cycle failed at display_image after render_to_png and convert returned
C19_Witness ==
    /\ main_pc = "backoff"
    /\ calls = <<"loading", "render_to_png", "convert", "display_image", "fault">>

\* C20: a wait does not end without a set event before the interval has
\* elapsed; refresh_event is clear when wait_with_interrupt returns; and, with
\* a fair event loop, a press that reaches trigger_refresh during the wait
\* leads to the start of the next display cycle even if the interval never
\* elapses.
C20_WaitEndsOnPressOrInterval ==
    /\ [][(main_pc = "waiting" /\ main_pc' # "waiting" /\ ~refresh_event)
              => elapsed = refresh_interval]_vars
    /\ [][(main_pc \in {"waiting", "timed_out"} /\ main_pc' = "cycle")
              => ~refresh_event']_vars
    /\ (main_pc = "waiting" /\ pending_sets > 0) ~> (main_pc = "cycle")

\* a wait has been ended by a press before the interval elapsed
C20_Witness ==
    /\ main_pc = "cycle"
    /\ wait_outcome = "interrupted"
    /\ elapsed < refresh_interval
    /\ ~refresh_event

----------------------------------------------------------------------------
(* EInkDisplay.update (src/display.py lines 68-106)                        *)

\* lines 81-98: the methods of self.epd that update invokes, in order
UpdateCalls == <<"init", "Clear", "init_4Gray", "getbuffer_4Gray", "display_4Gray">>

\* the position after a call that returned
AfterCall(call) ==
    IF call = "display_4Gray" THEN "done"
    ELSE UpdateCalls[(CHOOSE i \in DOMAIN UpdateCalls : UpdateCalls[i] = call) + 1]

\* lines 99-106: a call raised; the handler logs and raises again, the finally
\* calls self.sleep(), which invokes epd.sleep()
Finally_NoSleep(log, call) == Append(log, call)
Finally(log, call) == log \o <<call, "sleep">>

\* the emulator has getBuffer_4Gray but no getbuffer_4Gray, so that call
\* raises AttributeError with it; its other methods only log; every method of
\* the panel driver talks to the hardware and can raise
CanRaise(call) == ~emulated \/ call = "getbuffer_4Gray"
CanReturn(call) == ~emulated \/ call # "getbuffer_4Gray"

InitUpdate ==
    /\ file_exists \in BOOLEAN
    /\ emulated \in BOOLEAN
    /\ epd_width = 0
    /\ epd_height = 0
    /\ epd_mode = "asleep"
    /\ src = NoImage
    /\ pu_regions = <<>>
    /\ panel_w = 0
    /\ panel_h = 0
    /\ base_gray = NoImage
    /\ idx = 0
    /\ sent = <<>>
    /\ pu_pc = "idle"
    /\ up_pc = "start"
    /\ epd_calls = <<>>

upFrame == <<pu_pc, file_exists, emulated, epd_width, epd_height, src,
             pu_regions, panel_w, panel_h, base_gray, idx, sent>>

\* lines 74-76
UpdateNoFile ==
    /\ up_pc = "start"
    /\ ~file_exists
    /\ up_pc' = "done"
    /\ UNCHANGED <<upFrame, epd_mode, epd_calls>>
    /\ UNCHANGED notPuVars

\* line 78: the try is entered
UpdateEnter ==
    /\ up_pc = "start"
    /\ file_exists
    /\ up_pc' = UpdateCalls[1]
    /\ UNCHANGED <<upFrame, epd_mode, epd_calls>>
    /\ UNCHANGED notPuVars

\* lines 81-98: the call update is at returns; after the last one the finally
\* puts the panel to sleep (lines 102-106)
UpdateCallReturns ==
    /\ up_pc \in {UpdateCalls[i] : i \in DOMAIN UpdateCalls}
    /\ CanReturn(up_pc)
    /\ up_pc' = AfterCall(up_pc)
    /\ epd_calls' = IF up_pc' = "done"
                    THEN epd_calls \o <<up_pc, "sleep">>
                    ELSE Append(epd_calls, up_pc)
    /\ epd_mode' = IF up_pc' = "done" THEN "asleep" ELSE "full"
    /\ UNCHANGED upFrame
    /\ UNCHANGED notPuVars

\* lines 81-106: the call update is at raises
UpdateCallRaises ==
    /\ up_pc \in {UpdateCalls[i] : i \in DOMAIN UpdateCalls}
    /\ CanRaise(up_pc)
    /\ up_pc' = "error"
    /\ epd_calls' = Finally(epd_calls, up_pc)
    /\ epd_mode' = "asleep"
    /\ UNCHANGED upFrame
    /\ UNCHANGED notPuVars

NextUpdate ==
    \/ UpdateNoFile
    \/ UpdateEnter
    \/ UpdateCallReturns
    \/ UpdateCallRaises

InitDisplay ==
    \/ InitPartial
    \/ /\ CompareIdle
       /\ ClassifyIdle
       /\ LoopIdle
       /\ LedsIdle
       /\ ButtonsIdle
       /\ RenderIdle
       /\ ConvertIdle
       /\ InitUpdate

NextDisplay ==
    \/ NextPartial
    \/ NextUpdate

SpecDisplay == InitDisplay /\ [][NextDisplay]_vars

----------------------------------------------------------------------------
(* Properties of update and partial_update together                        *)

\* the calls that write to the panel, getbuffer_4Gray only converting an image
PanelWrites == SelectSeq(epd_calls, LAMBDA c : c # "getbuffer_4Gray")

IsPrefix(s, t) == Len(s) <= Len(t) /\ s = SubSeq(t, 1, Len(s))

SleepCalls == SelectSeq(epd_calls, LAMBDA c : c = "sleep")

\* C21: a call of update or partial_update that has invoked epd.init or
\* epd.init_part and is over, returned or raised, has invoked epd.sleep()
\* once, as its last driver call; the panel writes of update before the sleep
\* are a prefix of init, Clear, init_4Gray, display_4Gray, all four when
\* update returned.
C21_SleepIsLastDriverCall ==
    /\ (up_pc \in {"done", "error"} /\ epd_calls # <<>>) =>
          /\ epd_calls[1] = "init"
          /\ epd_calls[Len(epd_calls)] = "sleep"
          /\ Len(SleepCalls) = 1
          /\ IsPrefix(SubSeq(PanelWrites, 1, Len(PanelWrites) - 1),
                      <<"init", "Clear", "init_4Gray", "display_4Gray">>)
          /\ up_pc = "done" =>
                PanelWrites = <<"init", "Clear", "init_4Gray", "display_4Gray", "sleep">>
    /\ (pu_pc \in {"done", "error"} /\ epd_calls # <<>>) =>
          /\ epd_calls[1] = "init_part"
          /\ epd_calls[Len(epd_calls)] = "sleep"
          /\ Len(SleepCalls) = 1
    /\ (up_pc \in {"done", "error"} /\ file_exists) => epd_calls # <<>>
    /\ (pu_pc \in {"done", "error"} /\ file_exists /\ pu_regions # <<>>) =>
          epd_calls # <<>>

\* update failed at display_4Gray and put the panel to sleep
C21_Witness ==
    /\ up_pc = "error"
    /\ epd_calls = <<"init", "Clear", "init_4Gray", "getbuffer_4Gray",
                     "display_4Gray", "sleep">>


(***************************************************************************)
(* LEDController (src/leds.py).  One thread calls loading, success, fault, *)
(* notification and off; each call stops the current animation and starts  *)
(* a daemon thread that writes the strip.  The clock runs on its own.      *)
(***************************************************************************)
HoursPerDay == 24
FaultPulses == 5
NotificationPulses == 3

\* (LED_BLOCK_START_HOUR, LED_BLOCK_END_HOUR): the default, which wraps over
\* midnight, and a window inside one day
BlockWindows == {<<22, 7>>, <<8, 20>>}

LedCalls == {"loading", "success", "fault", "notification", "off"}

\* _is_blocked_time
IsBlockedTime(h) ==
    IF block_start_hour > block_end_hour
    THEN h >= block_start_hour \/ h < block_end_hour
    ELSE block_start_hour <= h /\ h < block_end_hour

Alive(t) == t.pc # "ended"

AliveThreads == SelectSeq(threads, Alive)

\* self._animation_thread and self._animation_thread.is_alive()
CurrentAlive == threads # <<>> /\ Alive(threads[Len(threads)])

Ended(t) == [kind |-> t.kind, pc |-> "ended", left |-> 0, wrote |-> FALSE]

\* the thread object a call creates, at the first statement of its target
NewThread(kind) ==
    [kind |-> kind,
     pc |-> IF kind = "fault" THEN "loop" ELSE "begin",
     left |-> IF kind = "fault" THEN FaultPulses ELSE 0,
     wrote |-> FALSE]

\* the step of _fade_effect's two loops that is run when `left` iterations
\* remain: range(steps) and then range(steps, -1, -1)
FadeStepAt(left) ==
    LET k == 2 * MaxFadeSteps + 1 - left
    IN IF k < MaxFadeSteps THEN k ELSE 2 * MaxFadeSteps - k

\* int(color * step / steps) is not 0 for the channels of green that are not 0
FadedIsLit(step) == (255 * step) \div MaxFadeSteps > 0

InitLeds ==
    /\ CompareIdle
    /\ ClassifyIdle
    /\ PartialIdle
    /\ LoopIdle
    /\ ButtonsIdle
    /\ RenderIdle
    /\ ConvertIdle
    /\ led_pc = "idle"
    /\ led_call = "none"
    /\ stop_animation = FALSE
    /\ threads = <<>>
    /\ hour \in 0 .. HoursPerDay - 1
    /\ \E w \in BlockWindows : block_start_hour = w[1] /\ block_end_hour = w[2]
    /\ lit = FALSE

\* a method is called: _stop_current_animation up to the join
CallStop(kind) ==
    /\ led_pc = "idle"
    /\ led_call' = kind
    /\ IF CurrentAlive
       THEN stop_animation' = TRUE /\ led_pc' = "join"
       ELSE stop_animation' = FALSE /\ led_pc' = "start"
    /\ UNCHANGED <<threads, hour, block_start_hour, block_end_hour, lit>>
    /\ UNCHANGED notLedVars

\* join returns because the thread has ended; the flag is cleared
JoinReturns ==
    /\ led_pc = "join"
    /\ ~CurrentAlive
    /\ stop_animation' = FALSE
    /\ led_pc' = "start"
    /\ UNCHANGED <<led_call, threads, hour, block_start_hour, block_end_hour, lit>>
    /\ UNCHANGED notLedVars

\* join(timeout=2.0) returns with the thread still alive; the flag is cleared
JoinTimesOut ==
    /\ led_pc = "join"
    /\ CurrentAlive
    /\ Len(AliveThreads) < MaxThreads
    /\ stop_animation' = FALSE
    /\ led_pc' = "start"
    /\ UNCHANGED <<led_call, threads, hour, block_start_hour, block_end_hour, lit>>
    /\ UNCHANGED notLedVars

\* loading, success, fault, notification: the new thread is started
StartAnimation ==
    /\ led_pc = "start"
    /\ led_call # "off"
    /\ threads' = Append(AliveThreads, NewThread(led_call))
    /\ led_pc' = "idle"
    /\ UNCHANGED <<led_call, stop_animation, hour, block_start_hour, block_end_hour, lit>>
    /\ UNCHANGED notLedVars

\* off: _set_all_pixels(off), which writes nothing in the blocked window
TurnOff ==
    /\ led_pc = "start"
    /\ led_call = "off"
    /\ lit' = IF IsBlockedTime(hour) THEN lit ELSE FALSE
    /\ led_pc' = "idle"
    /\ UNCHANGED <<led_call, stop_animation, threads, hour, block_start_hour, block_end_hour>>
    /\ UNCHANGED notLedVars

ledFrame == <<led_pc, led_call, stop_animation, hour, block_start_hour, block_end_hour>>

\* the first statement of _loading_animation, _fade_effect, _pulse_effect:
\* return at once in the blocked window
ThreadBegin(i) ==
    /\ threads[i].pc = "begin"
    /\ threads' = [threads EXCEPT ![i] =
           IF threads[i].kind = "loading"
           THEN IF IsBlockedTime(hour) THEN Ended(@) ELSE [@ EXCEPT !.pc = "loop"]
           ELSE IF IsBlockedTime(hour) THEN [@ EXCEPT !.pc = "tail"]
           ELSE [@ EXCEPT !.pc = "loop",
                          !.left = IF threads[i].kind = "success"
                                   THEN 2 * MaxFadeSteps + 1
                                   ELSE NotificationPulses]]
    /\ UNCHANGED lit
    /\ UNCHANGED ledFrame
    /\ UNCHANGED notLedVars

\* one turn of _loading_animation: it writes self.pixels and shows them
\* without asking for the time
LoadingStep(i) ==
    /\ threads[i].kind = "loading"
    /\ threads[i].pc = "loop"
    /\ IF stop_animation
       THEN /\ threads' = [threads EXCEPT ![i] = Ended(@)]
            /\ UNCHANGED lit
       ELSE /\ threads' = [threads EXCEPT ![i].wrote = TRUE]
            /\ lit' = TRUE
    /\ UNCHANGED ledFrame
    /\ UNCHANGED notLedVars

\* one turn of fault_animation up to the sleep of _pulse_effect(pulses=1)
FaultPulse(i) ==
    /\ threads[i].kind = "fault"
    /\ threads[i].pc = "loop"
    /\ IF stop_animation
       THEN /\ threads' = [threads EXCEPT ![i] = Ended(@)]
            /\ UNCHANGED lit
       ELSE IF IsBlockedTime(hour)
       THEN /\ threads' = [threads EXCEPT ![i] =
                   IF @.left = 1 THEN Ended(@) ELSE [@ EXCEPT !.left = @ - 1]]
            /\ UNCHANGED lit
       ELSE /\ threads' = [threads EXCEPT ![i].pc = "on", ![i].wrote = TRUE]
            /\ lit' = TRUE
    /\ UNCHANGED ledFrame
    /\ UNCHANGED notLedVars

\* one turn of _pulse_effect(pulses=3) in notification_animation up to the
\* sleep
NotificationPulse(i) ==
    /\ threads[i].kind = "notification"
    /\ threads[i].pc = "loop"
    /\ IF stop_animation
       THEN /\ threads' = [threads EXCEPT ![i].pc = "tail", ![i].left = 0]
            /\ UNCHANGED lit
       ELSE IF IsBlockedTime(hour)
       THEN /\ threads' = [threads EXCEPT ![i].pc = "on"]
            /\ UNCHANGED lit
       ELSE /\ threads' = [threads EXCEPT ![i].pc = "on", ![i].wrote = TRUE]
            /\ lit' = TRUE
    /\ UNCHANGED ledFrame
    /\ UNCHANGED notLedVars

\* the second half of a pulse: _set_all_pixels(off)
PulseOff(i) ==
    /\ threads[i].pc = "on"
    /\ threads' = [threads EXCEPT ![i] =
           LET t == IF IsBlockedTime(hour) THEN @ ELSE [@ EXCEPT !.wrote = TRUE]
           IN IF t.left > 1 THEN [t EXCEPT !.pc = "loop", !.left = @ - 1]
              ELSE IF t.kind = "fault" THEN Ended(t)
              ELSE [t EXCEPT !.pc = "tail", !.left = 0]]
    /\ lit' = IF IsBlockedTime(hour) THEN lit ELSE FALSE
    /\ UNCHANGED ledFrame
    /\ UNCHANGED notLedVars

\* one turn of _fade_effect in success_animation
FadeStep(i) ==
    /\ threads[i].kind = "success"
    /\ threads[i].pc = "loop"
    /\ IF stop_animation
       THEN /\ threads' = [threads EXCEPT ![i].pc = "tail", ![i].left = 0]
            /\ UNCHANGED lit
       ELSE /\ threads' = [threads EXCEPT ![i] =
                   LET t == IF IsBlockedTime(hour) THEN @ ELSE [@ EXCEPT !.wrote = TRUE]
                   IN IF t.left > 1 THEN [t EXCEPT !.left = @ - 1]
                      ELSE [t EXCEPT !.pc = "tail", !.left = 0]]
            /\ lit' = IF IsBlockedTime(hour) THEN lit
                      ELSE FadedIsLit(FadeStepAt(threads[i].left))
    /\ UNCHANGED ledFrame
    /\ UNCHANGED notLedVars

\* the end of success_animation and notification_animation:
\* time.sleep(0.5) and _set_all_pixels(off), whatever the stop flag says
AnimationTail(i) ==
    /\ threads[i].pc = "tail"
    /\ threads' = [threads EXCEPT ![i] = Ended(@)]
    /\ lit' = IF IsBlockedTime(hour) THEN lit ELSE FALSE
    /\ UNCHANGED ledFrame
    /\ UNCHANGED notLedVars

\* an hour passes
AdvanceClock ==
    /\ led_pc # "unused"
    /\ hour' = (hour + 1) % HoursPerDay
    /\ UNCHANGED <<led_pc, led_call, stop_animation, threads,
                   block_start_hour, block_end_hour, lit>>
    /\ UNCHANGED notLedVars

NextLeds ==
    \/ \E kind \in LedCalls : CallStop(kind)
    \/ JoinReturns
    \/ JoinTimesOut
    \/ StartAnimation
    \/ TurnOff
    \/ \E i \in DOMAIN threads : ThreadBegin(i)
    \/ \E i \in DOMAIN threads : LoadingStep(i)
    \/ \E i \in DOMAIN threads : FaultPulse(i)
    \/ \E i \in DOMAIN threads : NotificationPulse(i)
    \/ \E i \in DOMAIN threads : PulseOff(i)
    \/ \E i \in DOMAIN threads : FadeStep(i)
    \/ \E i \in DOMAIN threads : AnimationTail(i)
    \/ AdvanceClock

SpecLeds == InitLeds /\ [][NextLeds]_vars

(***************************************************************************)
(* Properties of the LEDController                                         *)
(***************************************************************************)
\* C22: at every moment whose hour lies in the blocked window no LED is
\* lit, after any sequence of loading, success, fault, notification and off
\* calls and any advance of the clock.
C22_DarkWhileBlocked ==
    (led_pc # "unused" /\ IsBlockedTime(hour)) => ~lit

\* C29: the animation started by an earlier call has stopped before the
\* animation of a later call writes a pixel, also after a join that timed
\* out.
C29_OneAnimationWrites ==
    \A i, j \in DOMAIN threads :
        (i < j /\ Alive(threads[i]) /\ Alive(threads[j])) => ~threads[j].wrote


(***************************************************************************)
(* ButtonHandler (src/buttons.py): the GPIO polling thread.  Time is       *)
(* counted in polling intervals (the 50 ms of the loop's sleep).           *)
(***************************************************************************)
Buttons == {"left", "right"}

Levels == {"LOW", "HIGH"}

\* time.time() when the handler is constructed: far more than DEBOUNCE_TIME
\* after the 0 that last_press_time starts with
StartTime == MaxDebounce + 1

\* the condition of the loop's two if statements:
\* not GPIO.input(pin) == GPIO.LOW, which Python reads as not (... == ...)
ReadsPressed(level) == ~(level = "LOW")

\* the condition of _is_debounced, at time t
IsDebounced_AtLeast(button, t) == t - last_press_time[button] >= debounce_time
IsDebounced(button, t) == t - last_press_time[button] > debounce_time

\* the statement after the if of a button
AfterCheck(button) == IF button = "left" THEN "check_right" ELSE "sleep"

Press(button, accepted) ==
    [button |-> button, at |-> now, level |-> pin[button], accepted |-> accepted]

InitButtons ==
    /\ CompareIdle
    /\ ClassifyIdle
    /\ PartialIdle
    /\ LoopIdle
    /\ LedsIdle
    /\ RenderIdle
    /\ ConvertIdle
    /\ btn_pc = "check_left"
    /\ pin \in [Buttons -> Levels]
    /\ now = StartTime
    /\ debounce_time \in 1 .. MaxDebounce
    /\ last_press_time = [b \in Buttons |-> 0]
    /\ presses = <<>>
    /\ requests = 0
    /\ refreshes = 0

\* a button is pressed or released
PinChange(button) ==
    /\ btn_pc # "unused"
    /\ pin' = [pin EXCEPT ![button] = IF @ = "LOW" THEN "HIGH" ELSE "LOW"]
    /\ UNCHANGED <<btn_pc, now, debounce_time, last_press_time, presses,
                   requests, refreshes>>
    /\ UNCHANGED notBtnVars

\* the if of a button is false: _handle_button_press is not called
PollSkips(button) ==
    /\ btn_pc = "check_" \o button
    /\ ~ReadsPressed(pin[button])
    /\ btn_pc' = AfterCheck(button)
    /\ UNCHANGED <<pin, now, debounce_time, last_press_time, presses,
                   requests, refreshes>>
    /\ UNCHANGED notBtnVars

\* _handle_button_press returns at once: _is_debounced is False
PollDebounced(button) ==
    /\ btn_pc = "check_" \o button
    /\ ReadsPressed(pin[button])
    /\ ~IsDebounced(button, now)
    /\ presses' = Append(presses, Press(button, FALSE))
    /\ btn_pc' = AfterCheck(button)
    /\ UNCHANGED <<pin, now, debounce_time, last_press_time, requests, refreshes>>
    /\ UNCHANGED notBtnVars

\* _is_debounced is True: last_press_time is set and the API request starts
PollAccepted(button) ==
    /\ btn_pc = "check_" \o button
    /\ ReadsPressed(pin[button])
    /\ IsDebounced(button, now)
    /\ last_press_time' = [last_press_time EXCEPT ![button] = now]
    /\ presses' = Append(presses, Press(button, TRUE))
    /\ btn_pc' = "request_" \o button
    /\ UNCHANGED <<pin, now, debounce_time, requests, refreshes>>
    /\ UNCHANGED notBtnVars

\* the API request ends (answer, error or the 5 s timeout) after d intervals
\* and refresh_callback is called; the polling thread was in asyncio.run all
\* the while
RequestDone(button, d) ==
    /\ btn_pc = "request_" \o button
    /\ now + d <= StartTime + MaxTime
    /\ now' = now + d
    /\ requests' = requests + 1
    /\ refreshes' = refreshes + 1
    /\ btn_pc' = AfterCheck(button)
    /\ UNCHANGED <<pin, debounce_time, last_press_time, presses>>
    /\ UNCHANGED notBtnVars

\* GPIO.input raises: the except branch logs and sleeps, the loop starts over
PollRaises(button) ==
    /\ btn_pc = "check_" \o button
    /\ btn_pc' = "sleep"
    /\ UNCHANGED <<pin, now, debounce_time, last_press_time, presses,
                   requests, refreshes>>
    /\ UNCHANGED notBtnVars

\* time.sleep(0.05), or the time.sleep(1) of the except branch
SleepOver ==
    /\ btn_pc = "sleep"
    /\ now < StartTime + MaxTime
    /\ now' = now + 1
    /\ btn_pc' = "check_left"
    /\ UNCHANGED <<pin, debounce_time, last_press_time, presses, requests, refreshes>>
    /\ UNCHANGED notBtnVars

NextButtons ==
    \/ \E button \in Buttons : PinChange(button)
    \/ \E button \in Buttons : PollSkips(button)
    \/ \E button \in Buttons : PollDebounced(button)
    \/ \E button \in Buttons : PollAccepted(button)
    \/ \E button \in Buttons : \E d \in 0 .. MaxApiTime : RequestDone(button, d)
    \/ \E button \in Buttons : PollRaises(button)
    \/ SleepOver

SpecButtons == InitButtons /\ [][NextButtons]_vars

(***************************************************************************)
(* Properties of the ButtonHandler                                         *)
(***************************************************************************)
\* C23: a button is handled only in a polling step where its pin reads
\* LOW; while the pin reads HIGH no press is handled for it.
C23_HandledOnlyWhenLow ==
    \A k \in DOMAIN presses : presses[k].accepted => presses[k].level = "LOW"

\* some handled press of the button lies DEBOUNCE_TIME or less before t
RecentlyHandled(button, t) ==
    \E k \in DOMAIN presses :
        /\ presses[k].button = button
        /\ presses[k].accepted
        /\ t - presses[k].at <= debounce_time

HandledFarApart ==
    \A i, j \in DOMAIN presses :
        (i < j /\ presses[i].button = presses[j].button
               /\ presses[i].accepted /\ presses[j].accepted)
            => presses[j].at - presses[i].at > debounce_time

\* what a call of _handle_button_press does: it handles the press exactly
\* when no handled press of the same button is recent, whatever the other
\* button did; a press it does not handle changes nothing, and no press
\* touches the other button's last_press_time
PressRule ==
    presses' # presses =>
        LET p == presses'[Len(presses')]
        IN /\ p.accepted <=> ~RecentlyHandled(p.button, p.at)
           /\ p.accepted => btn_pc' = "request_" \o p.button
           /\ ~p.accepted =>
                 /\ btn_pc' \notin {"request_left", "request_right"}
                 /\ requests' = requests
                 /\ refreshes' = refreshes
                 /\ last_press_time' = last_press_time
           /\ \A b \in Buttons \ {p.button} :
                 last_press_time'[b] = last_press_time[b]

\* the polling thread loses no time over a handled press
NoTimeLost ==
    btn_pc \in {"request_left", "request_right"} => now' = now

\* C24 (as stated): handled presses of one button are more than
\* DEBOUNCE_TIME apart, a press within DEBOUNCE_TIME of the last handled
\* press of its button causes no API request and no refresh and leaves
\* last_press_time unchanged, and a press on one button never delays the
\* other button.
C24_DebounceAndNoDelay ==
    /\ []HandledFarApart
    /\ [][PressRule]_vars
    /\ [][NoTimeLost]_vars

\* C24 (amended): the debounce is kept per button; a press on one button
\* never changes whether a press on the other button is handled.
C24_DebouncePerButton ==
    /\ []HandledFarApart
    /\ [][PressRule]_vars

\* both buttons were handled, one of them twice with a debounced press in
\* between
C24_Witness ==
    \E i, j, k, l \in DOMAIN presses :
        /\ i < j /\ j < k
        /\ presses[i].button = presses[k].button
        /\ presses[j].button = presses[i].button
        /\ presses[i].accepted /\ ~presses[j].accepted /\ presses[k].accepted
        /\ presses[l].button # presses[i].button
        /\ presses[l].accepted
        /\ i < l /\ l < k
        /\ requests >= 3

(***************************************************************************)
(* Renderer.render_to_png (src/render.py)                                  *)
(***************************************************************************)
RetryWait == 5

\* the awaits of the try block, in order
TrySteps == <<"launch", "new_page", "goto", "sleep", "screenshot", "close">>

\* wait_time of the except branch
WaitTime_Constant(k) == RetryWait
WaitTime(k) == (k + 1) * RetryWait

InitRender ==
    /\ CompareIdle
    /\ ClassifyIdle
    /\ PartialIdle
    /\ LoopIdle
    /\ LedsIdle
    /\ ButtonsIdle
    /\ ConvertIdle
    /\ rnd_pc = "loop"
    /\ max_retries \in -1 .. MaxRetries
    /\ attempt = 0
    /\ rnd_step = 0
    /\ waits = <<>>
    /\ attempts_made = 0

\* for attempt in range(max_retries): the next turn, or the end of the loop,
\* after which the function ends without a return statement
LoopNext ==
    /\ rnd_pc = "loop"
    /\ IF attempt < max_retries
       THEN /\ rnd_pc' = "try"
            /\ rnd_step' = 1
            /\ attempts_made' = attempts_made + 1
       ELSE /\ rnd_pc' = "returned_none"
            /\ UNCHANGED <<rnd_step, attempts_made>>
    /\ UNCHANGED <<max_retries, attempt, waits>>
    /\ UNCHANGED notRndVars

\* an await of the try block returns; after browser.close() the function
\* returns output_file
StepReturns ==
    /\ rnd_pc = "try"
    /\ IF rnd_step < Len(TrySteps)
       THEN rnd_step' = rnd_step + 1 /\ UNCHANGED rnd_pc
       ELSE rnd_pc' = "returned" /\ UNCHANGED rnd_step
    /\ UNCHANGED <<max_retries, attempt, waits, attempts_made>>
    /\ UNCHANGED notRndVars

\* an await of the try block raises: the except branch sleeps and the loop
\* goes on, or raises after the last attempt
StepRaises ==
    /\ rnd_pc = "try"
    /\ TrySteps[rnd_step] # "sleep"
    /\ IF attempt < max_retries - 1
       THEN /\ waits' = Append(waits, WaitTime(attempt))
            /\ attempt' = attempt + 1
            /\ rnd_pc' = "loop"
       ELSE /\ rnd_pc' = "raised"
            /\ UNCHANGED <<waits, attempt>>
    /\ UNCHANGED <<max_retries, rnd_step, attempts_made>>
    /\ UNCHANGED notRndVars

NextRender ==
    \/ LoopNext
    \/ StepReturns
    \/ StepRaises

SpecRender == InitRender /\ [][NextRender]_vars

(***************************************************************************)
(* Properties of render_to_png                                             *)
(***************************************************************************)
\* attempts that have failed so far
FailedAttempts ==
    IF rnd_pc = "try" \/ rnd_pc = "returned" THEN attempts_made - 1
    ELSE attempts_made

\* C25: render_to_png makes at most max_retries attempts, returns at the
\* first attempt that succeeds, waits 5*k seconds after the k-th failed
\* attempt before attempt k+1, and raises after the max_retries-th failed
\* attempt without waiting.
C25_RetriesWithGrowingWaits ==
    /\ attempts_made <= Max2(max_retries, 0)
    /\ \A k \in DOMAIN waits : waits[k] = 5 * k
    /\ rnd_pc \in {"loop", "try", "returned"} => Len(waits) = FailedAttempts
    /\ rnd_pc = "returned" => rnd_step = Len(TrySteps)
    /\ rnd_pc = "raised" =>
          /\ FailedAttempts = max_retries
          /\ Len(waits) = max_retries - 1
    /\ rnd_pc \in {"returned", "raised", "returned_none"} => ~ENABLED NextRender

\* the call raised after three failed attempts and two waits
C25_Witness ==
    /\ rnd_pc = "raised"
    /\ max_retries = 3
    /\ waits = <<5, 10>>

(***************************************************************************)
(* compare_images with images of different sizes                           *)
(***************************************************************************)
SizesDiffer == img_a.w # img_b.w \/ img_a.h # img_b.h

\* C26: when the two images differ in width or height the call fails with
\* an error and returns no region list, before any pixel is compared.
C26_SizeMismatchFails ==
    (pc # "idle" /\ SizesDiffer) =>
        /\ pc \in {"start", "error"}
        /\ changed_blocks = {}
        /\ remaining = {}
        /\ regions = <<>>

\* the call has failed on images of different heights whose pixels differ
C26_Witness ==
    /\ pc = "error"
    /\ img_a.w = img_b.w
    /\ img_a.h # img_b.h
    /\ img_a.px[<<0, 0>>] # img_b.px[<<0, 0>>]

(***************************************************************************)
(* The excluded edge band of bbox_has_non_binary_pixels                    *)
(***************************************************************************)
BandImages ==
    UNION { { PatchImage(w, h, bg, fg, xa, xb, ya, yb) :
                bg \in ClsGray, fg \in ClsGray,
                xa \in 0 .. w - 1, xb \in 1 .. w, ya \in 0 .. h - 1, yb \in 1 .. h } :
            w \in 1 .. MaxBandW, h \in 1 .. MaxBandH }

InitBandWhole ==
    /\ image \in BandImages
    /\ bbox = WholeImage(image)
    /\ threshold \in Thresholds
    /\ delta = DefaultDelta
    /\ edge_radius \in 0 .. MaxEdgeRadius
    /\ min_fraction = <<1, 100>>

InitBandBoxes ==
    /\ image = UniformImage(2, 1, 128)
    /\ bbox \in OtherBoxes(image)
    /\ threshold = DefaultThreshold
    /\ delta = DefaultDelta
    /\ edge_radius = DefaultEdgeRadius
    /\ min_fraction = <<1, 100>>

InitBand ==
    /\ CompareIdle
    /\ PartialIdle
    /\ LoopIdle
    /\ LedsIdle
    /\ ButtonsIdle
    /\ RenderIdle
    /\ ConvertIdle
    /\ cls_pc = "start"
    /\ \/ InitBandWhole
       \/ InitBandBoxes
       \/ InitClassifyBadBox
    /\ region = NoImage
    /\ edge_band = NoImage.px
    /\ outside_edges = NoImage.px
    /\ mid_gray_outside = NoImage.px
    /\ result = FALSE

SpecBand == InitBand /\ [][NextClassify]_vars

Abs(v) == IF v >= 0 THEN v ELSE -v

Chebyshev(p, q) == Max2(Abs(p[1] - q[1]), Abs(p[2] - q[2]))

\* the 3x3 neighbourhood of q, clipped at the border of the crop, holds a
\* pixel >= threshold and a pixel < threshold
OnEdge(q) ==
    LET nb == {n \in CropPixels : Chebyshev(n, q) <= 1}
    IN  /\ \E n \in nb : region.px[n] >= threshold
        /\ \E n \in nb : region.px[n] < threshold

NearEdge(p) == \E q \in CropPixels : Chebyshev(p, q) <= edge_radius /\ OnEdge(q)

\* intensities a pixel is changed to: on either side of both thresholds one
\* that is mid-gray for the default delta and one that is not
ProbeGray == {0, 100, 210, 255}

SameSide(v, u) == (v >= threshold) <=> (u >= threshold)

\* C27: a pixel belongs to the edge band if and only if some pixel within
\* Chebyshev distance edge_radius of it has a clipped 3x3 neighbourhood with
\* a pixel >= threshold and a pixel < threshold; pixels inside the band are
\* neither suspicious nor in the denominator, so changing the intensity of
\* one without crossing the threshold never changes the classification.
C27_EdgeBandExcluded ==
    /\ cls_pc \in {"edges", "masked"} \/ Analysed =>
          \A p \in CropPixels : edge_band[p] > 0 <=> NearEdge(p)
    /\ Analysed =>
          /\ result = ResultOf(region, threshold, delta, edge_radius, min_fraction)
          /\ \A p \in CropPixels :
                edge_band[p] > 0 =>
                    /\ outside_edges[p] = 0
                    /\ mid_gray_outside[p] = 0
                    /\ \A v \in ProbeGray :
                          SameSide(v, region.px[p]) =>
                              ResultOf([region EXCEPT !.px[p] = v], threshold,
                                       delta, edge_radius, min_fraction) = result

\* a mid-gray pixel that is in the band only through the expansion, next to
\* pixels outside the band, in a region classified unsafe
C27_Witness ==
    /\ Analysed
    /\ edge_radius = 1
    /\ result = TRUE
    /\ OutsideBand # {}
    /\ \E p \in CropPixels :
          /\ edge_band[p] > 0
          /\ ~OnEdge(p)
          /\ IsMidGray(region.px[p], delta)

(***************************************************************************)
(* Presses and the panel between display cycles                            *)
(***************************************************************************)
\* C28: each trigger_refresh call made after run() has started is
\* eventually followed by a display cycle that begins after that call,
\* wherever the main loop is when the press arrives.
C28_PressIsServed == unserved ~> ~unserved

\* a press arrived between the timeout of the wait and the clearing of
\* refresh_event, and its set has been delivered
C28_Witness ==
    /\ unserved
    /\ main_pc = "timed_out"
    /\ refresh_event
    /\ pending_sets = 0

\* the main loop is in wait_with_interrupt or in the back-off
LoopIsIdle == main_pc \in {"waiting", "timed_out", "backoff"}

\* C30: whenever the main loop is idle between display cycles, the last
\* driver call issued by the preceding cycle, whether it succeeded or failed
\* at any step, is epd.sleep().
C30_AsleepWhileIdle ==
    (LoopIsIdle /\ cycle_epd # <<>>) => cycle_epd[Len(cycle_epd)] = "sleep"

(***************************************************************************)
(* FourToneConverter.convert (src/convert.py)                              *)
(***************************************************************************)
LEVELS == <<255, 192, 128, 0>>

\* lines 22-29: the tone of one pixel
Tone(original) ==
    IF original > 190 THEN 255
    ELSE IF original > 128 THEN 192
    ELSE IF original > 64 THEN 128
    ELSE 0

\* lines 18-31: the loops replace every pixel by its tone
Quantized(img) ==
    [img EXCEPT !.px = [p \in DOMAIN img.px |-> Tone(img.px[p])]]

\* intensities of the images converted: the four levels and the values on
\* both sides of each comparison of lines 22-26
ConvGray == {0, 64, 65, 128, 129, 190, 191, 192, 255}

ConvImages ==
    UNION {[w : {s[1]}, h : {s[2]}, px : [Pixels(s[1], s[2]) -> ConvGray]] :
              s \in (1 .. MaxConvW) \X (1 .. MaxConvH)}

InitConvert ==
    /\ CompareIdle
    /\ ClassifyIdle
    /\ PartialIdle
    /\ LoopIdle
    /\ LedsIdle
    /\ ButtonsIdle
    /\ RenderIdle
    /\ conv_pc = "ready"
    /\ conv_source \in ConvImages
    /\ conv_saved = NoImage
    /\ conversions = 0

\* lines 13-37: the image is opened, quantized in place and saved as a BMP
\* (an 8-bit grayscale BMP, which Image.open(...).convert("L") reads back
\* with the intensities that were saved)
Convert ==
    /\ conv_pc = "ready"
    /\ conv_saved' = Quantized(conv_source)
    /\ conversions' = conversions + 1
    /\ conv_pc' = "saved"
    /\ UNCHANGED conv_source
    /\ UNCHANGED notConvVars

\* lines 39-41: Image.open or img.save raises; the error is logged and
\* raised again, and nothing new is saved
ConvertFails ==
    /\ conv_pc = "ready"
    /\ conv_pc' = "raised"
    /\ UNCHANGED <<conv_source, conv_saved, conversions>>
    /\ UNCHANGED notConvVars

\* line 10: convert is called with the file saved before as input_path
ConvertAgain ==
    /\ conv_pc = "saved"
    /\ conversions < MaxConversions
    /\ conv_source' = conv_saved
    /\ conv_pc' = "ready"
    /\ UNCHANGED <<conv_saved, conversions>>
    /\ UNCHANGED notConvVars

NextConvert ==
    \/ Convert
    \/ ConvertFails
    \/ ConvertAgain

SpecConvert == InitConvert /\ [][NextConvert]_vars

\* C31: every pixel of a converted image is one of LEVELS, a pixel that
\* holds one of the four levels keeps it, and the conversion of an image
\* that was converted before changes no pixel.
C31_ConvertIdempotent ==
    LET levels == {LEVELS[i] : i \in DOMAIN LEVELS}
    IN  conv_pc = "saved" =>
            /\ \A p \in DOMAIN conv_saved.px : conv_saved.px[p] \in levels
            /\ \A p \in DOMAIN conv_source.px :
                  conv_source.px[p] \in levels =>
                      conv_saved.px[p] = conv_source.px[p]
            /\ (conversions >= 2 => conv_saved = conv_source)

====
